---- MODULE Spec2Model ----
(***************************************************************************)
(* A model of the Bazel test-execution pipeline of the Go extension:       *)
(*   - getErrorMessageCollector  (src/src/bazel/bazelTestUtils.ts)         *)
(*   - testResultXMLToGoTestOutput, processTestResultXML                   *)
(*   - processBuildEvents                                                  *)
(*   - getBazelArgs, getBazelTestEnvVars                                   *)
(*   - BazelGoTestRunner.resolveTestName / resolveSubtest /                *)
(*     formatTestCaseForFilter / recursivelyClearTestSuiteSubtests /       *)
(*     consumeGoTestEvent / runGoTest  (src/unnamed/part_002)              *)
(*   - goTestWithBazel  (src/src/bazel/bazelTestUtils.ts)                  *)
(*   - GoCoverageHandler, lcovLinesToEditorRanges                          *)
(*     (src/src/bazel/bazelCoverage.ts)                                    *)
(*   - the re-resolution of file items by GoTestResolver, as far as        *)
(*     test/integration/goTest.resolve.test.ts exercises it                *)
(*   - overlapping calls of BazelGoTestRunner.run and runWithCoverage      *)
(*   - the messages of a failed test in consumeGoTestEvent                 *)
(*   - CoverageTreeProvider.getTreeItem                                    *)
(* Each component has its own specification (SpecCollector, SpecXml,       *)
(* SpecBuildEvents, SpecRunner, SpecOrchestrator, SpecArgs, SpecRanges,    *)
(* SpecCoverage, SpecReports, SpecResolve, SpecCalls, SpecFailed,          *)
(* SpecTreeItem); the variables of the other components stay at their      *)
(* idle values.  SpecBuildEventsLive and SpecOrchestratorLive add the      *)
(* fairness the liveness properties need.                                  *)
(***************************************************************************)
EXTENDS Integers, Sequences, FiniteSets, TLC

VARIABLES
    \* ---- error-message collector (closure state of getErrorMessageCollector)
    sawError,       \* let sawError
    output,         \* const output: string[]
    ecArg,          \* history: the argument of the last call
    ecBefore,       \* history: [sawError, output] before the last call
    \* ---- testResultXMLToGoTestOutput
    xmlDoc,         \* the parsed report document handed to the converter
    xmlResult,      \* "pending", or the value / exception of the call
    \* ---- processBuildEvents
    beRead,         \* the lines the 'line' handler has been called with
    outputs,        \* const outputs: BuildEventOutputs
    beCollector,    \* closure state of updateErrorMessages
    beChannel,      \* number of malformed-JSON diagnostics on the output channel
    bePhase,        \* "reading", "closing" (close() called by the handler), "resolved"
    beUnlinks,      \* number of fs.unlink calls on the event-log file
    beAtFailure,    \* history: outputs when the first line failed
    beDelivered,    \* the outcome the awaiting caller receives
    beUnread,       \* the lines of the event log the handler was never called with
    beEnd,          \* what ran deleteAndResolve: "none", "end", "close", "error", "open"
    \* ---- BazelGoTestRunner and the test tree of its GoTestResolver
    resolver,       \* [items, isTestSuiteFunc, isDynamicSubtest, isTestMethod]
    tests,          \* the run's Record<string, TestItem>, in key order
    complete,       \* Set<TestItem> of the run
    record,         \* Map<string, string[]>: test id -> number of output lines
    reported,       \* what the TestRun was told: {<<item, "passed">>, ...}
    removedItems,   \* the items run() took out of isTestMethod
    runPhase,       \* "idle", "running" (in run), "testing" (in runGoTest)
    runFunctions,   \* the test filters runGoTest hands to Bazel
    consumed,       \* the number of events the run has consumed
    lastCall,       \* history: the last call and what it returned
    \* ---- goTestWithBazel
    goRuns,         \* per invocation: its configuration, its process, its close handler
    runningTestProcesses,  \* the processes registered as running (by invocation)
    \* ---- getBazelArgs
    baInput,        \* the test configuration, targets and debug configuration of the call
    baArgs,         \* the argument vector it returned, empty before the call
    \* ---- lcovLinesToEditorRanges
    lrLines,        \* the LcovPart of one file: found, hit, details
    lrShowCounts,   \* the coverShowCounts setting
    lrCoverage,     \* the CoverageData returned, once the call has returned
    \* ---- GoCoverageHandler
    coverageTreeRoots,  \* the root nodes of the coverage tree
    coverageData,       \* the coverage data of goCover: absolute path -> CoverageData
    cvMessages,         \* the error messages shown to the user
    cvRuns,             \* per run: its phase, and what its report parses to
    \* ---- processTestResultXML
    pxFiles,        \* xmlFilePaths: what is found at each path
    pxIndex,        \* 0 before the call, then the position of the next file
    pxForwarded,    \* the events handed to goTestOutputConsumer, with their file
    pxChannel,      \* the lines appended to the output channel
    \* ---- GoTestResolver: re-resolution of file items
    rxWorkspace,    \* the symbols of each document, as the scanner reports them
    rxItems,        \* resolver.items: the TestItems with id, label, uri, parent
    rxLast,         \* the last call of resolve: the file item and the ids before
    \* ---- BazelGoTestRunner.run / runWithCoverage, calls that may overlap
    coverageEnabled,    \* goCtx.coverageEnabled
    rcIsTestMethod,     \* resolver.isTestMethod
    rcCalls,            \* per call: its phase, request, removedItems, preserved flag
    \* ---- consumeGoTestEvent, case 'fail': the messages of the failed test
    fmMessages,     \* what parseOutput returns for the output of the test
    fmConcat,       \* concat
    fmFailed,       \* the messages handed to run.failed
    \* ---- CoverageTreeProvider.getTreeItem
    tiElement,      \* the CoverageTreeNode
    tiItem          \* the TreeItem returned for it

ecVars  == <<sawError, output, ecArg, ecBefore>>
xmlVars == <<xmlDoc, xmlResult>>
beVars  == <<beRead, outputs, beCollector, beChannel, bePhase, beUnlinks,
             beAtFailure, beDelivered, beUnread, beEnd>>

\* what a step of one component leaves alone
trVars  == <<resolver, tests, complete, record, reported, removedItems,
            runPhase, runFunctions, consumed, lastCall>>

goVars  == <<goRuns, runningTestProcesses>>

baVars  == <<baInput, baArgs>>

lrVars  == <<lrLines, lrShowCounts, lrCoverage>>

cvVars  == <<coverageTreeRoots, coverageData, cvMessages, cvRuns>>

pxVars  == <<pxFiles, pxIndex, pxForwarded, pxChannel>>

rxVars  == <<rxWorkspace, rxItems, rxLast>>

rcVars  == <<coverageEnabled, rcIsTestMethod, rcCalls>>

fmVars  == <<fmMessages, fmConcat, fmFailed>>

tiVars  == <<tiElement, tiItem>>

EcFrame  == UNCHANGED <<xmlVars, beVars, trVars, goVars, baVars, lrVars, cvVars, pxVars, rxVars, rcVars, fmVars, tiVars>>
XmlFrame == UNCHANGED <<ecVars, beVars, trVars, goVars, baVars, lrVars, cvVars, pxVars, rxVars, rcVars, fmVars, tiVars>>
BeFrame  == UNCHANGED <<ecVars, xmlVars, trVars, goVars, baVars, lrVars, cvVars, pxVars, rxVars, rcVars, fmVars, tiVars>>
TrFrame  == UNCHANGED <<ecVars, xmlVars, beVars, goVars, baVars, lrVars, cvVars, pxVars, rxVars, rcVars, fmVars, tiVars>>
GoFrame  == UNCHANGED <<ecVars, xmlVars, beVars, trVars, baVars, lrVars, cvVars, pxVars, rxVars, rcVars, fmVars, tiVars>>
BaFrame  == UNCHANGED <<ecVars, xmlVars, beVars, trVars, goVars, lrVars, cvVars, pxVars, rxVars, rcVars, fmVars, tiVars>>
LrFrame  == UNCHANGED <<ecVars, xmlVars, beVars, trVars, goVars, baVars, cvVars, pxVars, rxVars, rcVars, fmVars, tiVars>>
CvFrame  == UNCHANGED <<ecVars, xmlVars, beVars, trVars, goVars, baVars, lrVars, pxVars, rxVars, rcVars, fmVars, tiVars>>
PxFrame  == UNCHANGED <<ecVars, xmlVars, beVars, trVars, goVars, baVars, lrVars, cvVars, rxVars, rcVars, fmVars, tiVars>>
RxFrame  == UNCHANGED <<ecVars, xmlVars, beVars, trVars, goVars, baVars, lrVars, cvVars, pxVars, rcVars, fmVars, tiVars>>
RcFrame  == UNCHANGED <<ecVars, xmlVars, beVars, trVars, goVars, baVars, lrVars, cvVars, pxVars, rxVars, fmVars, tiVars>>
FmFrame  == UNCHANGED <<ecVars, xmlVars, beVars, trVars, goVars, baVars, lrVars, cvVars, pxVars, rxVars, rcVars, tiVars>>
TiFrame  == UNCHANGED <<ecVars, xmlVars, beVars, trVars, goVars, baVars, lrVars, cvVars, pxVars, rxVars, rcVars, fmVars>>

(***************************************************************************)
(* Generic helpers.                                                        *)
(***************************************************************************)
None == "undefined"

\* an optional string argument (msg?: string): undefined, or a string
Undefined == [defined |-> FALSE, text |-> <<>>]
Str(s)    == [defined |-> TRUE, text |-> s]
\* !msg : undefined and the empty string are falsy
Falsy(arg) == ~arg.defined \/ arg.text = <<>>

\* s.startsWith(p) on sequences
StartsWith(s, p) ==
    /\ Len(p) <= Len(s)
    /\ SubSeq(s, 1, Len(p)) = p

\* Array.prototype.push(...items)
RECURSIVE Flatten(_)
Flatten(ss) == IF ss = <<>> THEN <<>> ELSE Head(ss) \o Flatten(Tail(ss))

(***************************************************************************)
(* Error-message collector.  A message is the stderr text of one progress  *)
(* record: a sequence of lines.  The empty sequence is the empty string.   *)
(***************************************************************************)
ErrorLine    == "ERROR: boom"
InternalLine == "Internal error thrown during build. x"
InfoLine     == "INFO: Elapsed time"
WarnLine     == "WARN: slow"
ProgressLine == "[1 / 2] compiling"
DetailLine   == "extra detail line"

\* regError = /^(ERROR:|Internal error thrown during build.)\s/m : matches at
\* the start of any line of the message
IsErrorLine(l) == l \in {ErrorLine, InternalLine}
\* regNonErrorLog = /^(DEBUG|INFO|WARN):/ : no m flag, start of the message only
IsLogLine(l) == l \in {InfoLine, WarnLine}
\* regProgress = /^\[\d+ \/ \d+\]/ : start of the message only
IsProgressLine(l) == l = ProgressLine

\* the messages fed to the collector
Messages ==
    { <<>>,
      <<ErrorLine>>,
      <<InfoLine, ErrorLine, DetailLine>>,
      <<InternalLine>>,
      <<InfoLine>>,
      <<WarnLine>>,
      <<ProgressLine>>,
      <<DetailLine>>,
      <<DetailLine, InfoLine>> }

\* the collector stops being called once it holds this many messages
MaxMessages == 3

\* regError.exec(msg): index of the first line that matches, 0 for no match
RegErrorIndex(msg) ==
    IF \E i \in 1..Len(msg) : IsErrorLine(msg[i])
    THEN CHOOSE i \in 1..Len(msg) :
            /\ IsErrorLine(msg[i])
            /\ \A j \in 1..(i - 1) : ~IsErrorLine(msg[j])
    ELSE 0

\* a mutant: the whole message is kept when a line of it matches
ErrMsgWholeMessage(msg) ==
    IF RegErrorIndex(msg) = 0 THEN <<>> ELSE msg

\* match ? msg.slice(match.index) : ''
ErrMsg(msg) ==
    IF RegErrorIndex(msg) = 0 THEN <<>> ELSE SubSeq(msg, RegErrorIndex(msg), Len(msg))

RegNonErrorLogTest(msg) == Len(msg) > 0 /\ IsLogLine(msg[1])
RegProgressTest(msg)    == Len(msg) > 0 /\ IsProgressLine(msg[1])

\* a mutant: a call without a message ends the pending error
updateErrorMessagesPeekClears(st, arg) ==
    IF Falsy(arg) THEN [sawError |-> FALSE, output |-> st.output]
    ELSE LET msg == arg.text IN
         IF Len(ErrMsg(msg)) > 0
         THEN [sawError |-> TRUE, output |-> Append(st.output, ErrMsg(msg))]
         ELSE IF st.sawError /\ ~RegNonErrorLogTest(msg) /\ ~RegProgressTest(msg)
         THEN [sawError |-> FALSE, output |-> Append(st.output, msg)]
         ELSE [sawError |-> FALSE, output |-> st.output]

\* the closure returned by getErrorMessageCollector, as a function of the
\* closure state st = [sawError, output] and the argument
updateErrorMessages(st, arg) ==
    IF Falsy(arg) THEN st
    ELSE LET msg == arg.text IN
         IF Len(ErrMsg(msg)) > 0
         THEN [sawError |-> TRUE, output |-> Append(st.output, ErrMsg(msg))]
         ELSE IF st.sawError /\ ~RegNonErrorLogTest(msg) /\ ~RegProgressTest(msg)
         THEN [sawError |-> FALSE, output |-> Append(st.output, msg)]
         ELSE [sawError |-> FALSE, output |-> st.output]

EcInit ==
    /\ sawError = FALSE
    /\ output = <<>>
    /\ ecArg = Undefined
    /\ ecBefore = [sawError |-> FALSE, output |-> <<>>, called |-> FALSE]

\* one call of the collector
CollectorCall(arg) ==
    /\ Len(output) < MaxMessages
    /\ LET st == updateErrorMessages([sawError |-> sawError, output |-> output], arg)
       IN /\ sawError' = st.sawError
          /\ output' = st.output
    /\ ecArg' = arg
    /\ ecBefore' = [sawError |-> sawError, output |-> output, called |-> TRUE]
    /\ EcFrame

CollectorArgs == {Undefined} \cup {Str(m) : m \in Messages}

EcNext == \E arg \in CollectorArgs : CollectorCall(arg)

(***************************************************************************)
(* testResultXMLToGoTestOutput.  A report document is                      *)
(* testsuites.testsuite[]: each suite has $.name and, unless every case    *)
(* was filtered out, testcase[]; a case has $.name, $.time and optional    *)
(* failure[] / error[] / skipped[] children.  A failure or error entry is  *)
(* what the XML parser hands over: its text is the field _, which is       *)
(* absent when the element has no text.  Text is a sequence of characters, *)
(* NL being the newline.                                                   *)
(***************************************************************************)
NL == "\n"

\* the children a test case can carry (name and time are added by position)
PassKind  == [failure |-> <<>>, error |-> <<>>, skipped |-> FALSE]
SkipKind  == [failure |-> <<>>, error |-> <<>>, skipped |-> TRUE]
FailKind  == [failure |-> <<Str(<<"a", NL, "b">>)>>, error |-> <<>>, skipped |-> FALSE]
\* text ending in a newline: the split yields a last, empty line
FailTrailingKind == [failure |-> <<Str(<<"c", NL>>)>>, error |-> <<>>, skipped |-> FALSE]
ErrorKind == [failure |-> <<>>, error |-> <<Str(<<"p", NL, "q">>)>>, skipped |-> FALSE]
\* <failure message="..."/> : an entry without text
FailNoTextKind == [failure |-> <<Undefined>>, error |-> <<>>, skipped |-> FALSE]

CaseKinds == {PassKind, SkipKind, FailKind, FailTrailingKind, ErrorKind, FailNoTextKind}

\* the largest number of suites of a document, and of cases of a suite
MaxSuites == 2
MaxCases  == 1

PackageName(i) == <<"pkg", i>>
CaseName(i, j) == <<"Test", i, j>>
CaseTime(i, j) == <<"time", i, j>>

\* suite number i with the children kinds ks
SuiteOf(i, ks) ==
    [name |-> PackageName(i), hasCases |-> TRUE,
     testcase |-> [j \in 1..Len(ks) |->
                     [name |-> CaseName(i, j), time |-> CaseTime(i, j),
                      failure |-> ks[j].failure, error |-> ks[j].error,
                      skipped |-> ks[j].skipped]]]

\* suite number i without a testcase field
EmptySuite(i) == [name |-> PackageName(i), hasCases |-> FALSE, testcase |-> <<>>]

KindSeqs == UNION {[1..k -> CaseKinds] : k \in 0..MaxCases}
SuitesAt(i) == {EmptySuite(i)} \cup {SuiteOf(i, ks) : ks \in KindSeqs}

\* text.split('\n')
RECURSIVE Split(_)
Split(text) ==
    IF \A i \in 1..Len(text) : text[i] # NL THEN <<text>>
    ELSE LET k == CHOOSE i \in 1..Len(text) :
                    text[i] = NL /\ \A j \in 1..(i - 1) : text[j] # NL
         IN <<SubSeq(text, 1, k - 1)>> \o Split(SubSeq(text, k + 1, Len(text)))

\* Number(currTestCase.$.time)
Number(t) == <<"number", t>>

\* entries.forEach((entry) => messages.push(...entry._.split('\n'))):
\* reading _.split of an entry without text throws a TypeError
EntriesThrow(entries) == \E i \in 1..Len(entries) : ~entries[i].defined
EntryLines(entries) == Flatten([i \in 1..Len(entries) |-> Split(entries[i].text)])

CaseAction(c) ==
    IF c.failure # <<>> THEN "fail"
    ELSE IF c.error # <<>> THEN "errored"
    ELSE IF c.skipped THEN "skip"
    ELSE "pass"

CaseThrows(c) ==
    IF c.failure # <<>> THEN EntriesThrow(c.failure)
    ELSE IF c.error # <<>> THEN EntriesThrow(c.error)
    ELSE FALSE

CaseMessages(c) ==
    IF c.failure # <<>> THEN EntryLines(c.failure)
    ELSE IF c.error # <<>> THEN EntryLines(c.error)
    ELSE <<>>

OutputEvent(pkg, c, message) ==
    [Action |-> "output", Output |-> message \o <<NL>>, Package |-> pkg, Test |-> c.name]

FinalEvent(pkg, c) ==
    [Action |-> CaseAction(c), Package |-> pkg, Test |-> c.name, Elapsed |-> Number(c.time)]

\* a mutant: the final result is pushed before the output entries
CaseEventsFinalFirst(pkg, c) ==
    <<FinalEvent(pkg, c)>>
        \o [k \in 1..Len(CaseMessages(c)) |-> OutputEvent(pkg, c, CaseMessages(c)[k])]

\* a mutant: empty lines of the captured text are dropped
CaseEventsNonEmptyOnly(pkg, c) ==
    LET ms == CaseMessages(c)
        keep == SelectSeq(ms, LAMBDA m : m # <<>>)
    IN [k \in 1..Len(keep) |-> OutputEvent(pkg, c, keep[k])] \o <<FinalEvent(pkg, c)>>

\* the events pushed for one test case (body of the inner for loop)
CaseEvents(pkg, c) ==
    [k \in 1..Len(CaseMessages(c)) |-> OutputEvent(pkg, c, CaseMessages(c)[k])]
        \o <<FinalEvent(pkg, c)>>

\* the cases of a document in iteration order, each with its package
RECURSIVE DocCases(_)
DocCases(doc) ==
    IF doc = <<>> THEN <<>>
    ELSE LET suite == Head(doc)
         IN (IF ~suite.hasCases THEN <<>>
             ELSE [j \in 1..Len(suite.testcase) |->
                     [pkg |-> suite.name, case |-> suite.testcase[j]]])
            \o DocCases(Tail(doc))

\* the call: an exception, or the results array
testResultXMLToGoTestOutput(doc) ==
    LET cs == DocCases(doc)
    IN IF \E k \in 1..Len(cs) : CaseThrows(cs[k].case)
       THEN [state |-> "threw", value |-> <<>>]
       ELSE [state |-> "returned",
             value |-> Flatten([k \in 1..Len(cs) |-> CaseEvents(cs[k].pkg, cs[k].case)])]

XmlPending == [state |-> "pending", value |-> <<>>]

XmlIdle == xmlDoc = <<>> /\ xmlResult = [state |-> "idle", value |-> <<>>]

\* the report is written by the test tool, one suite after the other
XmlInit == xmlDoc = <<>> /\ xmlResult = XmlPending

ReportSuite ==
    /\ xmlResult.state = "pending"
    /\ Len(xmlDoc) < MaxSuites
    /\ \E su \in SuitesAt(Len(xmlDoc) + 1) : xmlDoc' = Append(xmlDoc, su)
    /\ UNCHANGED xmlResult
    /\ XmlFrame

\* the converter is called on the finished report
Convert ==
    /\ xmlResult.state = "pending"
    /\ xmlResult' = testResultXMLToGoTestOutput(xmlDoc)
    /\ UNCHANGED xmlDoc
    /\ XmlFrame

XmlNext == ReportSuite \/ Convert

(***************************************************************************)
(* processBuildEvents.  The event log is read line by line; a line is the  *)
(* JSON text of one build event, or garbage.  A line is modelled by what   *)
(* JSON.parse and the field accesses of the handler see in it.             *)
(***************************************************************************)
FailedToParse     == -1
Success           == 0
BuildFailed       == 1
CommandLineProblem == 2
TestFailed        == 3
Interrupted       == 8

FileScheme == "file://"
TestXml    == "test.xml"
TestLog    == "test.log"

BuildEventLines ==
    { [kind |-> "garbage"],                    \* JSON.parse throws
      [kind |-> "noId"],                       \* valid JSON without an id object
      [kind |-> "unknownId"],                  \* an id with none of the known tags
      [kind |-> "progress", stderr |-> Undefined],
      [kind |-> "progress", stderr |-> Str(<<ErrorLine>>)],
      [kind |-> "progress", stderr |-> Str(<<DetailLine>>)],
      [kind |-> "buildFinished", payload |-> TRUE, hasCode |-> FALSE, code |-> 0],
      [kind |-> "buildFinished", payload |-> TRUE, hasCode |-> TRUE, code |-> Success],
      [kind |-> "buildFinished", payload |-> TRUE, hasCode |-> TRUE, code |-> TestFailed],
      [kind |-> "buildFinished", payload |-> FALSE, hasCode |-> FALSE, code |-> 0],
      [kind |-> "workspace", payload |-> TRUE, localExecRoot |-> "/execroot"],
      [kind |-> "started", payload |-> TRUE, workspaceDirectory |-> "/ws"],
      [kind |-> "testResult", payload |-> TRUE,
         testActionOutput |-> << [name |-> TestLog, uri |-> <<FileScheme, "/t1/test.log">>],
                                 [name |-> TestXml, uri |-> <<FileScheme, "/t1/test.xml">>] >>],
      [kind |-> "testResult", payload |-> TRUE,
         testActionOutput |-> << [name |-> TestXml, uri |-> <<"/t2/test.xml">>] >>],
      [kind |-> "testResult", payload |-> FALSE, testActionOutput |-> <<>>],
      [kind |-> "configuration", payload |-> TRUE, GENDIR |-> "bazel-out/bin"] }

\* the largest number of lines of an event log
MaxLines == 3

\* a mutant: the uri is pushed as it is
StripFileSchemeKeepsPrefix(uri) == uri

\* uri.replace(/^(file:\/\/)/, '')
StripFileScheme(uri) == IF uri # <<>> /\ Head(uri) = FileScheme THEN Tail(uri) ELSE uri

\* the paths pushed for one test-result record
RECURSIVE XmlPathsOf(_)
XmlPathsOf(actionOutputs) ==
    IF actionOutputs = <<>> THEN <<>>
    ELSE (IF Head(actionOutputs).name = TestXml
          THEN <<StripFileScheme(Head(actionOutputs).uri)>> ELSE <<>>)
         \o XmlPathsOf(Tail(actionOutputs))

\* a mutant: a record without code leaves the sentinel
CodeOrSentinel(line) == IF line.hasCode THEN line.code ELSE FailedToParse

\* parsed.finished.exitCode.code || 0
CodeOr0(line) == IF line.hasCode /\ line.code # 0 THEN line.code ELSE 0

\* a mutant: an id without a recognised tag throws as well
LineThrowsWithoutTag(line) ==
    \/ line.kind \in {"garbage", "noId", "unknownId"}
    \/ line.kind \in {"buildFinished", "workspace", "started", "testResult", "configuration"}
          /\ ~line.payload

\* does the try block of the handler throw on this line
LineThrows(line) ==
    \/ line.kind \in {"garbage", "noId"}
    \/ line.kind \in {"buildFinished", "workspace", "started", "testResult", "configuration"}
          /\ ~line.payload

\* parsed.progress?.stderr
StderrOf(line) == IF line.kind = "progress" THEN line.stderr ELSE Undefined

InitialOutputs ==
    [testXMLPaths |-> <<>>, errorMessages |-> <<>>, exitCode |-> FailedToParse,
     workspaceDirectory |-> "", localExecRoot |-> None, genDir |-> None]

\* the assignments of the try block on a line that does not throw
LineEffect(o, line, messages) ==
    LET o1 == IF line.kind = "buildFinished"
              THEN [o EXCEPT !.exitCode = CodeOr0(line)] ELSE o
        o2 == [o1 EXCEPT !.errorMessages = messages]
    IN IF line.kind = "workspace" THEN [o2 EXCEPT !.localExecRoot = line.localExecRoot]
       ELSE IF line.kind = "started"
            THEN [o2 EXCEPT !.workspaceDirectory = line.workspaceDirectory]
       ELSE IF line.kind = "testResult"
            THEN [o2 EXCEPT !.testXMLPaths = @ \o XmlPathsOf(line.testActionOutput)]
       ELSE IF line.kind = "configuration" THEN [o2 EXCEPT !.genDir = line.GENDIR]
       ELSE o2

\* a mutant: the outcome is resolved without the unlink
deleteAndResolveKeepsFile(n) == n

\* deleteAndResolve: fs.unlink(buildEventsFile, ...) is issued, then resolve;
\* n is the number of unlink calls issued so far
deleteAndResolve(n) == n + 1

\* what the event log can hold after the lines the handler has seen; of the
\* lines nobody reads, the records an outcome could have drawn on
UnreadLines ==
    { line \in BuildEventLines :
        \/ line.kind = "buildFinished" /\ line.payload /\ line.hasCode
        \/ line.kind = "testResult" /\ line.payload /\ Len(line.testActionOutput) = 1 }

UnreadTails(seen) ==
    UNION { [1..k -> UnreadLines] : k \in 0..(MaxLines - Len(seen)) }

BeIdle ==
    /\ beRead = <<>>
    /\ outputs = InitialOutputs
    /\ beCollector = [sawError |-> FALSE, output |-> <<>>]
    /\ beChannel = 0
    /\ bePhase = "idle"
    /\ beUnlinks = 0
    /\ beAtFailure = InitialOutputs
    /\ beDelivered = InitialOutputs
    /\ beUnread = <<>>
    /\ beEnd = "none"

BeInit ==
    /\ beRead = <<>>
    /\ outputs = InitialOutputs
    /\ beCollector = [sawError |-> FALSE, output |-> <<>>]
    /\ beChannel = 0
    /\ bePhase = "reading"
    /\ beUnlinks = 0
    /\ beAtFailure = InitialOutputs
    /\ beDelivered = InitialOutputs
    /\ beUnread = <<>>
    /\ beEnd = "none"

\* lineReader.on('line'): the try block completes.  The interface keeps
\* emitting the lines of the chunk it is splitting after close() was called
\* by the handler, so the handler also runs in phase "closing".
OnLineOk(line) ==
    /\ bePhase \in {"reading", "closing"}
    /\ Len(beRead) < MaxLines
    /\ ~LineThrows(line)
    /\ beRead' = Append(beRead, line)
    /\ LET st == updateErrorMessages(beCollector, StderrOf(line))
       IN /\ beCollector' = st
          /\ outputs' = LineEffect(outputs, line, st.output)
    /\ UNCHANGED <<beChannel, bePhase, beUnlinks, beAtFailure, beDelivered,
                   beUnread, beEnd>>
    /\ BeFrame

\* lineReader.on('line'): the try block throws; the catch block reports and
\* calls lineReader.close(), whose first call emits 'close' (deleteAndResolve)
OnLineThrows(line) ==
    /\ bePhase \in {"reading", "closing"}
    /\ Len(beRead) < MaxLines
    /\ LineThrows(line)
    /\ beRead' = Append(beRead, line)
    /\ beChannel' = beChannel + 1
    /\ bePhase' = "closing"
    /\ beUnlinks' = IF bePhase = "reading" THEN deleteAndResolve(beUnlinks)
                                            ELSE beUnlinks
    /\ beAtFailure' = IF bePhase = "reading" THEN outputs ELSE beAtFailure
    /\ beEnd' = IF bePhase = "reading" THEN "close" ELSE beEnd
    /\ UNCHANGED <<outputs, beCollector, beDelivered, beUnread>>
    /\ BeFrame

\* the input ends: the interface closes, 'close' runs deleteAndResolve and
\* the awaiting caller receives outputs
EndOfInput ==
    /\ bePhase = "reading"
    /\ bePhase' = "resolved"
    /\ beUnlinks' = deleteAndResolve(beUnlinks)
    /\ beDelivered' = outputs
    /\ beEnd' = "end"
    /\ UNCHANGED <<beRead, outputs, beCollector, beChannel, beAtFailure, beUnread>>
    /\ BeFrame

\* the chunk in which the handler called close() has been split to its end;
\* the promise resolved by deleteAndResolve hands outputs to the caller.  The
\* closed interface reads no further chunk: what the log holds after this
\* chunk is never seen by the handler.
EndOfChunk ==
    /\ bePhase = "closing"
    /\ bePhase' = "resolved"
    /\ beDelivered' = outputs
    /\ \E rest \in UnreadTails(beRead) : beUnread' = rest
    /\ UNCHANGED <<beRead, outputs, beCollector, beChannel, beUnlinks, beAtFailure,
                   beEnd>>
    /\ BeFrame

\* a mutant: nothing listens to the 'error' of the interface
StreamErrorUnhandled ==
    /\ bePhase = "reading"
    /\ bePhase' = "failed"
    /\ beEnd' = "error"
    /\ \E rest \in UnreadTails(beRead) : beUnread' = rest
    /\ UNCHANGED <<beRead, outputs, beCollector, beChannel, beUnlinks, beAtFailure,
                   beDelivered>>
    /\ BeFrame

\* the read stream fails (the file is missing: nothing was read and the log
\* holds nothing; or a read fails after some chunks); the interface emits
\* 'error' and lineReader.on('error') runs deleteAndResolve
StreamError ==
    /\ bePhase = "reading"
    /\ bePhase' = "resolved"
    /\ beUnlinks' = deleteAndResolve(beUnlinks)
    /\ beDelivered' = outputs
    /\ beEnd' = "error"
    /\ \E rest \in UnreadTails(beRead) : beUnread' = rest
    /\ UNCHANGED <<beRead, outputs, beCollector, beChannel, beAtFailure>>
    /\ BeFrame

\* creating the stream or the interface throws: the catch block writes its
\* error line and returns deleteAndResolve()
OpenFails ==
    /\ bePhase = "reading"
    /\ beRead = <<>>
    /\ bePhase' = "resolved"
    /\ beUnlinks' = deleteAndResolve(beUnlinks)
    /\ beDelivered' = outputs
    /\ beEnd' = "open"
    /\ UNCHANGED <<beRead, outputs, beCollector, beChannel, beAtFailure, beUnread>>
    /\ BeFrame

BeNext ==
    \/ \E line \in BuildEventLines : OnLineOk(line)
    \/ \E line \in BuildEventLines : OnLineThrows(line)
    \/ EndOfInput
    \/ EndOfChunk
    \/ StreamError
    \/ OpenFails

(***************************************************************************)
(* The test tree and BazelGoTestRunner.  A test name is a sequence of      *)
(* characters; Slash separates the segments of a subtest path and a        *)
(* receiver prefix (RecvT, RecvU) starts the identifier of a suite         *)
(* method.  A TestItem is a handle into resolver.items; handle 0 is        *)
(* undefined.                                                              *)
(***************************************************************************)
Slash == "/"
RecvT == "(*T)."
RecvU == "(*U)."
ReceiverPrefixes == {RecvT, RecvU}

NotFound == 0

\* the tree after the resolver has scanned the file: a file with a suite
\* function S that runs two suite types (methods M and N of type T, method M
\* of type U) and a plain test function P
FileItem   == 1
SuiteItem  == 2
MethodTM   == 3
MethodTN   == 4
MethodUM   == 5
PlainItem  == 6

Node(name, label, parent, children) ==
    [name |-> name, label |-> label, parent |-> parent, children |-> children]

ScannedTree ==
    [items |->
        (FileItem   :> Node(<<"file">>, <<"file">>, 0, <<SuiteItem, PlainItem>>)) @@
        (SuiteItem  :> Node(<<"S">>, <<"S">>, FileItem, <<MethodTM, MethodTN, MethodUM>>)) @@
        (MethodTM   :> Node(<<RecvT, "M">>, <<"M">>, SuiteItem, <<>>)) @@
        (MethodTN   :> Node(<<RecvT, "N">>, <<"N">>, SuiteItem, <<>>)) @@
        (MethodUM   :> Node(<<RecvU, "M">>, <<"M">>, SuiteItem, <<>>)) @@
        (PlainItem  :> Node(<<"P">>, <<"P">>, FileItem, <<>>)),
     isTestSuiteFunc  |-> {SuiteItem},
     isDynamicSubtest |-> {},
     isTestMethod     |-> {MethodTM, MethodTN, MethodUM}]

\* the names the test tool reports
ReportedNames ==
    { <<>>,
      <<"S">>,
      <<"P">>,
      <<"Q">>,
      <<"S", Slash, "M">>,
      <<"S", Slash, "N">>,
      <<"S", Slash, "Z">>,
      <<"S", Slash, "M", Slash, "a">>,
      <<"S", Slash, "M", Slash, "a", Slash, "b">> }

\* the largest number of dynamic subtests the tree holds
MaxDynamic == 2

\* GoTest.parseId(item.id).name
ParseIdName(rs, item) == rs.items[item].name

\* extractInstanceTestName: the method name of a receiver-qualified
\* identifier, else the empty string
extractInstanceTestName(symbolName) ==
    IF Len(symbolName) >= 2 /\ symbolName[1] \in ReceiverPrefixes
    THEN Tail(symbolName) ELSE <<>>

\* name.indexOf('/', from): zero-based, -1 when there is none
IndexOfSlash(name, from) ==
    IF \E i \in (from + 1)..Len(name) : name[i] = Slash
    THEN (CHOOSE i \in (from + 1)..Len(name) :
             name[i] = Slash /\ \A j \in (from + 1)..(i - 1) : name[j] # Slash) - 1
    ELSE -1

\* name.substring(0, end)
Substring0(name, end) == SubSeq(name, 1, end)

\* name.charAt(i) === '/'
CharIsSlash(name, i) == i + 1 <= Len(name) /\ name[i + 1] = Slash

\* the smallest handle not in use
FreshHandle(rs) == CHOOSE h \in 1..(Cardinality(DOMAIN rs.items) + 1) : h \notin DOMAIN rs.items

\* TestItemCollection.add: an item with the same id replaces the old one
AddChild(rs, children, h, name) ==
    IF \E i \in 1..Len(children) : rs.items[children[i]].name = name
    THEN [i \in 1..Len(children) |->
             IF rs.items[children[i]].name = name THEN h ELSE children[i]]
    ELSE Append(children, h)

\* GoTestResolver.getOrCreateSubTest(item, label, name, dynamic): the child
\* that goes by name, created and marked as a dynamic subtest when missing
getOrCreateSubTest(rs, item, label, name, dynamic) ==
    LET kids == rs.items[item].children
        hits == {i \in 1..Len(kids) : rs.items[kids[i]].label = name}
    IN IF hits # {}
       THEN [rs |-> rs, item |-> kids[CHOOSE i \in hits : \A j \in hits : j <= i]]
       ELSE LET h == FreshHandle(rs)
                items1 == [rs.items EXCEPT ![item].children = AddChild(rs, @, h, name)]
                items2 == (h :> Node(name, label, item, <<>>)) @@ items1
            IN [rs |-> [rs EXCEPT !.items = items2,
                                  !.isDynamicSubtest =
                                      IF dynamic THEN @ \cup {h} ELSE @],
                item |-> h]

\* the segmentEnd resolveSubtest works with: the first '/' after start when
\* none is given (0 stands for the omitted argument), the end of the name
\* when there is no further '/'
SegmentEnd(name, start, segmentEnd) ==
    IF segmentEnd = 0
    THEN (IF IndexOfSlash(name, start) = -1 THEN Len(name) ELSE IndexOfSlash(name, start))
    ELSE (IF segmentEnd = -1 THEN Len(name) ELSE segmentEnd)

RECURSIVE resolveSubtest(_, _, _, _, _)

\* resolveSubtest after getOrCreateSubTest has returned currentSubtest: the
\* next segment when a '/' follows
SubtestFrom(currentSubtest, name, start, segmentEnd) ==
    IF currentSubtest.item # NotFound /\ CharIsSlash(name, segmentEnd)
    THEN resolveSubtest(currentSubtest.rs, currentSubtest.item, name, start,
                        IndexOfSlash(name, segmentEnd + 1))
    ELSE currentSubtest

\* the call of getOrCreateSubTest for the segment that ends at segmentEnd
SubtestAt(rs, parent, name, start, segmentEnd) ==
    SubtestFrom(getOrCreateSubTest(rs, parent, Substring0(name, segmentEnd),
                                   Substring0(name, segmentEnd), TRUE),
                name, start, segmentEnd)

\* the same call with the segments after start as the label
SubtestAtSegmentLabel(rs, parent, name, start, segmentEnd) ==
    SubtestFrom(getOrCreateSubTest(rs, parent, SubSeq(name, start + 1, segmentEnd),
                                   Substring0(name, segmentEnd), TRUE),
                name, start, segmentEnd)

\* the next segment is resolved below the parent of this one
SubtestFromSameParent(currentSubtest, parent, name, start, segmentEnd) ==
    IF currentSubtest.item # NotFound /\ CharIsSlash(name, segmentEnd)
    THEN resolveSubtest(currentSubtest.rs, parent, name, start,
                        IndexOfSlash(name, segmentEnd + 1))
    ELSE currentSubtest

SubtestAtSameParent(rs, parent, name, start, segmentEnd) ==
    SubtestFromSameParent(
        getOrCreateSubTest(rs, parent, Substring0(name, segmentEnd),
                           Substring0(name, segmentEnd), TRUE),
        parent, name, start, segmentEnd)

\* a mutant: every segment is resolved below the test method
resolveSubtestBelowMethod(rs, parent, name, start, segmentEnd) ==
    SubtestAtSameParent(rs, parent, name, start, SegmentEnd(name, start, segmentEnd))

\* a mutant: the subtest is created with the segments as its label
resolveSubtestSegmentLabel(rs, parent, name, start, segmentEnd) ==
    SubtestAtSegmentLabel(rs, parent, name, start, SegmentEnd(name, start, segmentEnd))

\* BazelGoTestRunner.resolveSubtest(parent, name, start, segmentEnd)
resolveSubtest(rs, parent, name, start, segmentEnd) ==
    SubtestAt(rs, parent, name, start, SegmentEnd(name, start, segmentEnd))

\* a key of the tests record: the name the item had when the run was set up
KeyOf(rs, item) == ParseIdName(rs, item)

\* tests[name] of a record given by its items in key order
FlatLookup(rs, ts, name) ==
    IF \E k \in 1..Len(ts) : KeyOf(rs, ts[k]) = name
    THEN ts[CHOOSE k \in 1..Len(ts) : KeyOf(rs, ts[k]) = name]
    ELSE NotFound

\* GoTestRunner.resolveTestName, the flat lookup: tests[name]
superResolveTestName(rs, ts, name) == [rs |-> rs, item |-> FlatLookup(rs, ts, name)]

\* `${existingTestName}/${extractInstanceTestName(name of the child)}`
TestMethodName(rs, existingTestName, child) ==
    existingTestName \o <<Slash>> \o extractInstanceTestName(ParseIdName(rs, child))

RECURSIVE SuiteChildren(_, _, _, _, _, _)

\* the forEach goes on after resolveSubtest has returned for child i
SuiteChildrenAfter(got, kids, i, existingTestName, name) ==
    SuiteChildren(got.rs, kids, i + 1, existingTestName, name, got.item)

\* tests[existingTestName].children.forEach(...): the children from position
\* i on, with the matchingChild found so far
SuiteChildren(rs, kids, i, existingTestName, name, matchingChild) ==
    IF i > Len(kids) THEN [rs |-> rs, item |-> matchingChild]
    ELSE IF name = TestMethodName(rs, existingTestName, kids[i])
    THEN SuiteChildren(rs, kids, i + 1, existingTestName, name, kids[i])
    ELSE IF StartsWith(name, TestMethodName(rs, existingTestName, kids[i]) \o <<Slash>>)
    THEN SuiteChildrenAfter(
             resolveSubtest(rs, kids[i], name,
                            Len(TestMethodName(rs, existingTestName, kids[i])) + 1, 0),
             kids, i, existingTestName, name)
    ELSE SuiteChildren(rs, kids, i + 1, existingTestName, name, matchingChild)

\* parent && isTestSuiteFunc.has(parent) && testSuiteMethodName
IsMethodOfSuite(rs, item) ==
    /\ rs.items[item].parent # 0
    /\ rs.items[item].parent \in rs.isTestSuiteFunc
    /\ extractInstanceTestName(KeyOf(rs, item)) # <<>>

\* `${suiteName}/${testSuiteMethodName}`
SuiteMethodPath(rs, item) ==
    ParseIdName(rs, rs.items[item].parent) \o <<Slash>> \o
        extractInstanceTestName(KeyOf(rs, item))

RECURSIVE resolveKeysFrom(_, _, _, _)

\* if (matchingChild) return matchingChild; else the next key
AfterSuite(got, ts, k, name) ==
    IF got.item # NotFound THEN got ELSE resolveKeysFrom(got.rs, ts, k + 1, name)

\* the for loop over Object.keys(tests), from key number k on, and the
\* call of the super class after it
resolveKeysFrom(rs, ts, k, name) ==
    IF k > Len(ts) THEN superResolveTestName(rs, ts, name)
    ELSE IF IsMethodOfSuite(rs, ts[k]) /\ name = SuiteMethodPath(rs, ts[k])
    THEN [rs |-> rs, item |-> ts[k]]
    ELSE IF IsMethodOfSuite(rs, ts[k])
            /\ StartsWith(name, SuiteMethodPath(rs, ts[k]) \o <<Slash>>)
    THEN resolveSubtest(rs, ts[k], name, Len(SuiteMethodPath(rs, ts[k])) + 1, 0)
    ELSE IF ts[k] \in rs.isTestSuiteFunc
    THEN AfterSuite(SuiteChildren(rs, rs.items[ts[k]].children, 1,
                                  KeyOf(rs, ts[k]), name, NotFound),
                    ts, k, name)
    ELSE resolveKeysFrom(rs, ts, k + 1, name)

\* a mutant: the flat lookup is tried before the suite rules
resolveTestNameFlatFirst(rs, ts, name) ==
    IF name = <<>> THEN [rs |-> rs, item |-> NotFound]
    ELSE IF FlatLookup(rs, ts, name) # NotFound
         THEN superResolveTestName(rs, ts, name)
         ELSE resolveKeysFrom(rs, ts, 1, name)

\* BazelGoTestRunner.resolveTestName(tests, name)
resolveTestName(rs, ts, name) ==
    IF name = <<>> THEN [rs |-> rs, item |-> NotFound]
    ELSE resolveKeysFrom(rs, ts, 1, name)

\* BazelGoTestRunner.formatTestCaseForFilter(testFunctionName, currentTestCase)
formatTestCaseForFilter(rs, testFunctionName, currentTestCase) ==
    IF currentTestCase = NotFound THEN testFunctionName
    ELSE LET testSuiteMethodName == extractInstanceTestName(testFunctionName)
             parent == rs.items[currentTestCase].parent
         IN IF parent # 0 /\ parent \in rs.isTestSuiteFunc /\ testSuiteMethodName # <<>>
            THEN ParseIdName(rs, parent) \o <<Slash>> \o testSuiteMethodName
            ELSE testFunctionName

\* the items below an item, the item included
RECURSIVE Subtree(_, _)
Subtree(rs, item) ==
    {item} \cup UNION { Subtree(rs, rs.items[item].children[i]) :
                          i \in 1..Len(rs.items[item].children) }

\* dispose(resolver, item): the item and everything below it leaves the tree
\* and the marker sets
dispose(rs, item) ==
    IF item \notin DOMAIN rs.items THEN rs
    ELSE LET gone   == Subtree(rs, item)
             parent == rs.items[item].parent
             kept   == [h \in (DOMAIN rs.items) \ gone |->
                          IF h = parent
                          THEN [rs.items[h] EXCEPT !.children =
                                   SelectSeq(@, LAMBDA c : c # item)]
                          ELSE rs.items[h]]
         IN [items            |-> kept,
             isTestSuiteFunc  |-> rs.isTestSuiteFunc \ gone,
             isDynamicSubtest |-> rs.isDynamicSubtest \ gone,
             isTestMethod     |-> rs.isTestMethod \ gone]

\* testCase.children.forEach(subTest => if dynamic, dispose)
RECURSIVE ClearSubtests(_, _, _)
ClearSubtests(rs, subTests, j) ==
    IF j > Len(subTests) THEN rs
    ELSE ClearSubtests(IF subTests[j] \in rs.isDynamicSubtest
                       THEN dispose(rs, subTests[j]) ELSE rs,
                       subTests, j + 1)

\* item.children.forEach(testCase => ...) of a test suite function
RECURSIVE ClearTestCases(_, _, _)
ClearTestCases(rs, testCases, i) ==
    IF i > Len(testCases) THEN rs
    ELSE ClearTestCases(ClearSubtests(rs, rs.items[testCases[i]].children, 1),
                        testCases, i + 1)

\* a mutant: the test cases of the suite are disposed of with their subtests
RECURSIVE DisposeTestCases(_, _, _)
DisposeTestCases(rs, testCases, i) ==
    IF i > Len(testCases) THEN rs
    ELSE DisposeTestCases(dispose(rs, testCases[i]), testCases, i + 1)

RECURSIVE recursivelyClearTestSuiteSubtests(_, _)
RECURSIVE ClearChildren(_, _, _)

\* a mutant of the traversal
recursivelyClearWithTestCases(rs, item) ==
    IF item \in rs.isTestSuiteFunc
    THEN DisposeTestCases(rs, rs.items[item].children, 1)
    ELSE ClearChildren(rs, rs.items[item].children, 1)

\* BazelGoTestRunner.recursivelyClearTestSuiteSubtests(item)
recursivelyClearTestSuiteSubtests(rs, item) ==
    IF item \in rs.isTestSuiteFunc
    THEN ClearTestCases(rs, rs.items[item].children, 1)
    ELSE ClearChildren(rs, rs.items[item].children, 1)

\* the recursive case: item.children.forEach(child => if not dynamic, recurse)
ClearChildren(rs, kids, i) ==
    IF i > Len(kids) THEN rs
    ELSE ClearChildren(IF kids[i] \notin rs.isDynamicSubtest
                       THEN recursivelyClearTestSuiteSubtests(rs, kids[i]) ELSE rs,
                       kids, i + 1)

\* request.include.forEach(...) of run(): [rs, removedItems]
RECURSIVE IncludeLoop(_, _, _, _)
IncludeLoop(rs, include, i, removed) ==
    IF i > Len(include) THEN [rs |-> rs, removedItems |-> removed]
    ELSE IF include[i] \in rs.isTestMethod
    THEN IncludeLoop(recursivelyClearTestSuiteSubtests(
                         [rs EXCEPT !.isTestMethod = @ \ {include[i]}], include[i]),
                     include, i + 1, Append(removed, include[i]))
    ELSE IncludeLoop(recursivelyClearTestSuiteSubtests(rs, include[i]),
                     include, i + 1, removed)

\* the events of a run: the action and the reported test name
EventActions == {"output", "pass", "fail", "errored"}
GoTestOutputs == [Action : EventActions, Test : ReportedNames]

\* the largest number of events one runGoTest consumes
MaxEvents == 1

\* record.get(test.id) with one more line
RecordPush(rec, id) ==
    IF id \in DOMAIN rec THEN [rec EXCEPT ![id] = @ + 1] ELSE (id :> 1) @@ rec

\* GoTestRunner.consumeGoTestEvent once it has resolved the test of the event
SuperConsumeResolved(st, e, got) ==
    IF got.item = NotFound THEN [st EXCEPT !.rs = got.rs]
    ELSE CASE e.Action = "pass" ->
                [st EXCEPT !.rs = got.rs,
                           !.complete = @ \cup {got.item},
                           !.reported = @ \cup {<<got.item, "passed">>}]
           [] e.Action = "skip" ->
                [st EXCEPT !.rs = got.rs,
                           !.complete = @ \cup {got.item},
                           !.reported = @ \cup {<<got.item, "skipped">>}]
           [] e.Action = "run" ->
                [st EXCEPT !.rs = got.rs,
                           !.reported = @ \cup {<<got.item, "started">>}]
           [] e.Action = "output" ->
                [st EXCEPT !.rs = got.rs,
                           !.record = RecordPush(@, ParseIdName(got.rs, got.item))]
           [] OTHER -> [st EXCEPT !.rs = got.rs]

\* GoTestRunner.consumeGoTestEvent: resolves the name itself, then files the
\* event under the test
superConsumeGoTestEvent(st, ts, e) ==
    SuperConsumeResolved(st, e, resolveTestName(st.rs, ts, e.Test))

\* consumeGoTestEvent once it has resolved the test of the event
ConsumeResolved(st, ts, e, got) ==
    IF got.item = NotFound THEN [st EXCEPT !.rs = got.rs, !.item = NotFound]
    ELSE CASE e.Action = "fail" ->
                [st EXCEPT !.rs = got.rs, !.item = got.item,
                           !.complete = @ \cup {got.item},
                           !.reported = @ \cup {<<got.item, "failed">>}]
           [] e.Action = "errored" ->
                [st EXCEPT !.rs = got.rs, !.item = got.item,
                           !.complete = @ \cup {got.item},
                           !.reported = @ \cup {<<got.item, "errored">>}]
           [] OTHER ->
                superConsumeGoTestEvent([st EXCEPT !.rs = got.rs, !.item = got.item], ts, e)

\* the same, but an event whose test is not found fails the first test
ConsumeResolvedEscalating(st, ts, e, got) ==
    IF got.item = NotFound
    THEN [st EXCEPT !.reported = @ \cup {<<ts[1], "errored">>}, !.item = NotFound]
    ELSE ConsumeResolved(st, ts, e, got)

\* a mutant: an event whose test is not found is escalated
consumeGoTestEventEscalating(st, ts, e) ==
    ConsumeResolvedEscalating(st, ts, e, resolveTestName(st.rs, ts, e.Test))

\* BazelGoTestRunner.consumeGoTestEvent(run, tests, record, complete, concat, e);
\* st is [rs, complete, record, reported, item], item the test it resolved
consumeGoTestEvent(st, ts, e) ==
    ConsumeResolved(st, ts, e, resolveTestName(st.rs, ts, e.Test))

\* GoTestRunner.markComplete(items, complete, fn): fn on every item of the
\* run that is not complete
markComplete(ts, done, outcome) ==
    { <<ts[k], outcome>> : k \in {j \in 1..Len(ts) : ts[j] \notin done} }

\* a mutant: the default branch leaves the incomplete tests as started
OutcomeOfExitDefaultRunning(exitCode) ==
    CASE exitCode = Success -> "skipped"
      [] exitCode = BuildFailed -> "errored"
      [] exitCode = Interrupted -> "skipped"
      [] exitCode = CommandLineProblem -> "skipped"
      [] OTHER -> "started"

\* what the switch on testOutcome.exitCode reports for the incomplete tests
OutcomeOfExit(exitCode) ==
    CASE exitCode = Success -> "skipped"
      [] exitCode = BuildFailed -> "errored"
      [] exitCode = Interrupted -> "skipped"
      [] exitCode = CommandLineProblem -> "skipped"
      [] OTHER -> "errored"

\* testOutcome.exitCode of a RunResult without exit code ({} or {debugReady})
NoExitCode == -2

ExitCodes == {FailedToParse, Success, BuildFailed, CommandLineProblem, TestFailed,
              Interrupted, NoExitCode}

\* the same switch with its benchmark branch: a finished benchmark run passes
\* what is incomplete
OutcomeOfRun(exitCode, isBenchmark) ==
    IF exitCode = Success /\ isBenchmark THEN "passed" ELSE OutcomeOfExit(exitCode)

\* the requests the user can make of the tree: one item, or two test items
Includes(rs) ==
    { <<h>> : h \in DOMAIN rs.items } \cup
    { <<MethodTM, h>> : h \in rs.isDynamicSubtest \cup {MethodUM} } \cup
    { <<MethodUM, MethodTM>> }

\* the tests GoTestRunner.run collects for the included items: the test
\* functions of a file, else the item
RECURSIVE CollectTests(_, _, _)
CollectTests(rs, include, i) ==
    IF i > Len(include) THEN <<>>
    ELSE (IF include[i] = FileItem THEN rs.items[FileItem].children ELSE <<include[i]>>)
         \o CollectTests(rs, include, i + 1)

NoCall == [op |-> "none", name |-> <<>>, item |-> NotFound, repeat |-> "first",
           include |-> <<>>, gone |-> {}]

\* whether a call repeats the call before it, and with the same answer
Repeat(name, item) ==
    IF lastCall.op \in {"resolve", "consume"} /\ lastCall.name = name
    THEN IF lastCall.item = item THEN "same" ELSE "differs"
    ELSE "first"

TrIdle ==
    /\ resolver = ScannedTree
    /\ tests = <<>>
    /\ complete = {}
    /\ record = <<>>
    /\ reported = {}
    /\ removedItems = <<>>
    /\ runPhase = "off"
    /\ runFunctions = <<>>
    /\ consumed = 0
    /\ lastCall = NoCall

TrInit ==
    /\ resolver = ScannedTree
    /\ tests = <<>>
    /\ complete = {}
    /\ record = <<>>
    /\ reported = {}
    /\ removedItems = <<>>
    /\ runPhase = "idle"
    /\ runFunctions = <<>>
    /\ consumed = 0
    /\ lastCall = NoCall

\* run(request): the loop over request.include, up to the call of super.run,
\* which collects the tests of the request
Run(include) ==
    /\ runPhase = "idle"
    /\ \E looped \in {IncludeLoop(resolver, include, 1, <<>>)} :
          /\ resolver' = looped.rs
          /\ removedItems' = looped.removedItems
          /\ tests' = CollectTests(looped.rs, include, 1)
          /\ lastCall' = [NoCall EXCEPT !.op = "run", !.include = include,
                             !.gone = (DOMAIN resolver.items) \ (DOMAIN looped.rs.items)]
    /\ runPhase' = "running"
    /\ UNCHANGED <<complete, record, reported, runFunctions, consumed>>
    /\ TrFrame

\* runGoTest(config), up to the await of goTestWithBazel
RunGoTest ==
    /\ runPhase = "running"
    /\ Len(tests) # 0
    /\ complete' = {}
    /\ record' = <<>>
    /\ reported' = {}
    /\ consumed' = 0
    /\ runFunctions' = [k \in 1..Len(tests) |->
                           formatTestCaseForFilter(resolver, KeyOf(resolver, tests[k]), tests[k])]
    /\ runPhase' = "testing"
    /\ lastCall' = [NoCall EXCEPT !.op = "runGoTest"]
    /\ UNCHANGED <<resolver, tests, removedItems>>
    /\ TrFrame

\* goTestOutputConsumer: one event of the run reaches consumeGoTestEvent
Consume(e) ==
    /\ runPhase = "testing"
    /\ consumed < MaxEvents
    /\ \E st \in {consumeGoTestEvent(
                     [rs |-> resolver, complete |-> complete, record |-> record,
                      reported |-> reported, item |-> NotFound], tests, e)} :
          /\ resolver' = st.rs
          /\ complete' = st.complete
          /\ record' = st.record
          /\ reported' = st.reported
          /\ lastCall' = [NoCall EXCEPT !.op = "consume", !.name = e.Test,
                             !.item = st.item, !.repeat = Repeat(e.Test, st.item)]
          /\ Cardinality(st.rs.isDynamicSubtest) <= MaxDynamic
    /\ consumed' = consumed + 1
    /\ UNCHANGED <<tests, removedItems, runPhase, runFunctions>>
    /\ TrFrame

\* resolveTestName(tests, name) called with the tests of the run
Resolve(name) ==
    /\ runPhase = "testing"
    /\ \E got \in {resolveTestName(resolver, tests, name)} :
          /\ resolver' = got.rs
          /\ lastCall' = [NoCall EXCEPT !.op = "resolve", !.name = name,
                             !.item = got.item, !.repeat = Repeat(name, got.item)]
          /\ Cardinality(got.rs.isDynamicSubtest) <= MaxDynamic
    /\ UNCHANGED <<tests, complete, record, reported, removedItems, runPhase,
                   runFunctions, consumed>>
    /\ TrFrame

\* runGoTest after goTestWithBazel has returned: the switch on the exit code
RunGoTestReturn(exitCode, isBenchmark) ==
    /\ runPhase = "testing"
    \* a benchmark run has no goTestOutputConsumer: no event was consumed
    /\ isBenchmark => consumed = 0
    /\ reported' = reported \cup
                      markComplete(tests, complete, OutcomeOfRun(exitCode, isBenchmark))
    /\ runPhase' = "ran"
    /\ lastCall' = [NoCall EXCEPT !.op = "runGoTestReturn"]
    /\ UNCHANGED <<resolver, tests, complete, record, removedItems, runFunctions, consumed>>
    /\ TrFrame

\* run(request) after super.run has returned
RunReturn ==
    /\ runPhase = "ran"
    /\ resolver' = [resolver EXCEPT !.isTestMethod =
                       @ \cup {removedItems[k] : k \in 1..Len(removedItems)}]
    /\ removedItems' = <<>>
    /\ runPhase' = "idle"
    /\ lastCall' = [NoCall EXCEPT !.op = "runReturn"]
    /\ tests' = <<>>
    /\ complete' = {}
    /\ record' = <<>>
    /\ reported' = {}
    /\ runFunctions' = <<>>
    /\ consumed' = 0
    /\ TrFrame

TrNext ==
    \/ \E include \in Includes(resolver) : Run(include)
    \/ RunGoTest
    \/ \E e \in GoTestOutputs : Consume(e)
    \/ \E name \in ReportedNames : Resolve(name)
    \/ \E exitCode \in ExitCodes, isBenchmark \in BOOLEAN :
          RunGoTestReturn(exitCode, isBenchmark)
    \/ RunReturn

(***************************************************************************)
(* goTestWithBazel.  Two invocations, "a" and "b", may be in flight at the *)
(* same time; "a" names the one invoked first.  An invocation is made by   *)
(* runGoTest (its own TestRunOutput channel, a consumer unless it runs     *)
(* benchmarks, the coverage handler, the cancellation token of the run) or *)
(* by bazelDebugTestAtCursor (no channel, a debug configuration).          *)
(***************************************************************************)
RunIds == {"a", "b"}

DefaultChannel == "Bazel Tests"

TestRunConfig(disable, coverage, benchmark) ==
    [debugConfig |-> FALSE, disableConcurrentTests |-> disable, outputChannel |-> TRUE,
     applyCodeCoverage |-> coverage, goTestOutputConsumer |-> ~benchmark,
     coverageHandler |-> TRUE, cancel |-> TRUE]

DebugRunConfig ==
    [debugConfig |-> TRUE, disableConcurrentTests |-> FALSE, outputChannel |-> FALSE,
     applyCodeCoverage |-> FALSE, goTestOutputConsumer |-> FALSE,
     coverageHandler |-> FALSE, cancel |-> FALSE]

RunConfigs ==
    { DebugRunConfig,
      TestRunConfig(FALSE, FALSE, FALSE),
      TestRunConfig(FALSE, TRUE, FALSE),
      TestRunConfig(TRUE, FALSE, FALSE),
      TestRunConfig(FALSE, TRUE, TRUE) }

NoConfig ==
    [debugConfig |-> FALSE, disableConcurrentTests |-> FALSE, outputChannel |-> FALSE,
     applyCodeCoverage |-> FALSE, goTestOutputConsumer |-> FALSE,
     coverageHandler |-> FALSE, cancel |-> FALSE]

\* what processBuildEvents can deliver, as far as the close handler reads it:
\* the exit code, the execution root, and the number of report paths
BuildEventOutcomes ==
    [exitCode : {FailedToParse, Success, BuildFailed, TestFailed},
     localExecRoot : {None, "/execroot"},
     reports : {0, 1}]

\* the outcomes as an invocation can tell them apart: without a consumer the
\* close handler does not read the report paths
OutcomesFor(cfg) ==
    { o \in BuildEventOutcomes : ~cfg.goTestOutputConsumer => o.reports = 0 }

NoOutcome == [exitCode |-> FailedToParse, localExecRoot |-> None, reports |-> 0]

NoResult == [kind |-> "none", exitCode |-> FailedToParse]

NewRun(phase) ==
    [phase |-> phase, cfg |-> NoConfig, cancelRequested |-> FALSE, killed |-> FALSE,
     streamed |-> FALSE, outcome |-> NoOutcome, steps |-> <<>>, forwarded |-> 0,
     covered |-> FALSE, result |-> NoResult]

\* const outputChannel = testconfig.outputChannel ? testconfig.outputChannel : testOutputChannel
ChannelOf(r, cfg) == IF cfg.outputChannel THEN r ELSE DefaultChannel

\* the invocations whose process has been spawned and has not closed
Live(runs) == { r \in RunIds : runs[r].phase = "live" }

\* cancelRunningTests: every registered process is asked to terminate and
\* the register is emptied
cancelRunningTests(runs, running) ==
    [q \in RunIds |-> IF q \in running THEN [runs[q] EXCEPT !.killed = TRUE] ELSE runs[q]]

\* outputChannel.clear(): what the invocations on that channel streamed is gone
ClearChannel(runs, channel) ==
    [q \in RunIds |-> IF runs[q].phase # "new" /\ ChannelOf(q, runs[q].cfg) = channel
                      THEN [runs[q] EXCEPT !.streamed = FALSE] ELSE runs[q]]

\* a mutant: the exit code is not looked at
ShouldCoverAnyExit(cfg, o) ==
    cfg.applyCodeCoverage /\ o.localExecRoot # None

\* the condition under which the close handler processes the cover profile
ShouldCover(cfg, o) ==
    cfg.applyCodeCoverage /\ o.localExecRoot # None /\ o.exitCode = Success

\* resolve({exitCode, message}): settles the promise unless resolve({debugReady})
\* settled it before
Resolved(run) ==
    [run EXCEPT !.phase = "resolved",
                !.steps = Append(@, "resolve"),
                !.result = IF @.kind = "none"
                           THEN [kind |-> "exit", exitCode |-> run.outcome.exitCode]
                           ELSE @]

\* the close handler after processTestResultXML, up to its next await
AfterConvert(run) ==
    IF ShouldCover(run.cfg, run.outcome) /\ run.cfg.coverageHandler
    THEN [run EXCEPT !.phase = "covering", !.steps = Append(@, "coverStart"),
                     !.covered = TRUE]
    ELSE Resolved(run)

\* a mutant: the result is resolved before the reports are converted
AfterParseResolvesFirst(run) ==
    IF run.cfg.goTestOutputConsumer
    THEN [Resolved(run) EXCEPT !.phase = "converting", !.steps = Append(@, "convertStart")]
    ELSE AfterConvert(run)

\* the close handler after processBuildEvents, up to its next await
AfterParse(run) ==
    IF run.cfg.goTestOutputConsumer
    THEN [run EXCEPT !.phase = "converting", !.steps = Append(@, "convertStart")]
    ELSE AfterConvert(run)

\* the number of events processTestResultXML forwards to the consumer: the
\* events of the report files the event log names
Forwarded(run) == run.outcome.reports

GoIdle ==
    /\ goRuns = [r \in RunIds |-> NewRun("off")]
    /\ runningTestProcesses = {}

GoInit ==
    /\ goRuns = [r \in RunIds |-> NewRun("new")]
    /\ runningTestProcesses = {}

\* goTestWithBazel is called: the channel is cleared when no process is
\* registered, the running tests are cancelled when the configuration asks
\* for it, and the call awaits the test targets
GoInvoke(r, cfg) ==
    /\ goRuns[r].phase = "new"
    /\ r = "b" => goRuns["a"].phase # "new"
    /\ \E cleared \in { IF runningTestProcesses = {}
                         THEN ClearChannel(goRuns, ChannelOf(r, cfg)) ELSE goRuns } :
         \E cancelled \in { IF cfg.disableConcurrentTests \/ cfg.debugConfig
                             THEN cancelRunningTests(cleared, runningTestProcesses)
                             ELSE cleared } :
            goRuns' = [cancelled EXCEPT ![r].phase = "setup", ![r].cfg = cfg]
    /\ runningTestProcesses' =
           IF cfg.disableConcurrentTests \/ cfg.debugConfig THEN {} ELSE runningTestProcesses
    /\ GoFrame

\* a mutant: a cancellation that arrived before the spawn is lost
SpawnUnlessCancelled(r) ==
    /\ goRuns[r].phase = "setup"
    /\ goRuns' = [goRuns EXCEPT ![r].phase = "live",
                                ![r].cancelRequested = FALSE]
    /\ runningTestProcesses' = runningTestProcesses \cup {r}
    /\ GoFrame

\* cp.exec: the process is spawned, the cancellation callback and the stream
\* handlers are registered, the process is pushed onto runningTestProcesses
Spawn(r) ==
    /\ goRuns[r].phase = "setup"
    /\ goRuns' = [goRuns EXCEPT ![r].phase = "live"]
    /\ runningTestProcesses' = runningTestProcesses \cup {r}
    /\ GoFrame

\* outBuf.onLine / errBuf.onLine: a line of the process goes to the channel
StdLine(r) ==
    /\ goRuns[r].phase = "live"
    /\ ~goRuns[r].streamed
    /\ goRuns' = [goRuns EXCEPT ![r].streamed = TRUE]
    /\ UNCHANGED runningTestProcesses
    /\ GoFrame

\* outBuf.onLine in a debug run: 'API server listening at:' settles the promise
DebugReady(r) ==
    /\ goRuns[r].phase = "live"
    /\ goRuns[r].cfg.debugConfig
    /\ goRuns[r].result.kind = "none"
    /\ goRuns' = [goRuns EXCEPT ![r].streamed = TRUE,
                                ![r].result = [kind |-> "debugReady",
                                               exitCode |-> FailedToParse]]
    /\ UNCHANGED runningTestProcesses
    /\ GoFrame

\* the cancellation token of the run is cancelled, before or after the spawn
CancelRequested(r) ==
    /\ goRuns[r].phase \in {"setup", "live"}
    /\ goRuns[r].cfg.cancel
    /\ ~goRuns[r].cancelRequested
    /\ goRuns' = [goRuns EXCEPT ![r].cancelRequested = TRUE]
    /\ UNCHANGED runningTestProcesses
    /\ GoFrame

\* the callback given to onCancellationRequested runs (at once for a token
\* cancelled after the registration, on the next tick for one cancelled
\* before it): killProcessTree(testProcess)
KillOnCancel(r) ==
    /\ goRuns[r].phase = "live"
    /\ goRuns[r].cancelRequested
    /\ ~goRuns[r].killed
    /\ goRuns' = [goRuns EXCEPT ![r].killed = TRUE]
    /\ UNCHANGED runningTestProcesses
    /\ GoFrame

\* testProcess.on('close'): both buffers are flushed, the process leaves
\* runningTestProcesses, processBuildEvents is called and awaited
ProcessClose(r) ==
    /\ goRuns[r].phase = "live"
    /\ goRuns' = [goRuns EXCEPT ![r].phase = "parsing",
                                ![r].steps = <<"close", "outDone", "errDone", "parseStart">>]
    /\ runningTestProcesses' = runningTestProcesses \ {r}
    /\ GoFrame

\* processBuildEvents delivers its outcome; the handler goes on to its next await
BuildEventsParsed(r, o) ==
    /\ goRuns[r].phase = "parsing"
    /\ \E run \in { [goRuns[r] EXCEPT !.outcome = o, !.steps = Append(@, "parseDone")] } :
          goRuns' = [goRuns EXCEPT ![r] = AfterParse(run)]
    /\ UNCHANGED runningTestProcesses
    /\ GoFrame

\* processTestResultXML has forwarded the events of the report files
ReportsConverted(r) ==
    /\ goRuns[r].phase = "converting"
    /\ \E run \in { [goRuns[r] EXCEPT !.forwarded = Forwarded(goRuns[r]),
                                       !.steps = Append(@, "convertDone")] } :
          goRuns' = [goRuns EXCEPT ![r] = AfterConvert(run)]
    /\ UNCHANGED runningTestProcesses
    /\ GoFrame

\* coverageHandler.processCoverProfile has returned
CoverageProcessed(r) ==
    /\ goRuns[r].phase = "covering"
    /\ goRuns' = [goRuns EXCEPT ![r] = Resolved([goRuns[r] EXCEPT
                                                  !.steps = Append(@, "coverDone")])]
    /\ UNCHANGED runningTestProcesses
    /\ GoFrame

\* the close handler ends (statusBarItem.hide when nothing is registered) and
\* the awaiting caller has the result; the invocation is over
CloseHandlerEnds(r) ==
    /\ goRuns[r].phase = "resolved"
    /\ goRuns' = [goRuns EXCEPT ![r] = NewRun("returned")]
    /\ UNCHANGED runningTestProcesses
    /\ GoFrame

GoNext ==
    \/ \E r \in RunIds, cfg \in RunConfigs : GoInvoke(r, cfg)
    \/ \E r \in RunIds : Spawn(r)
    \/ \E r \in RunIds : StdLine(r)
    \/ \E r \in RunIds : DebugReady(r)
    \/ \E r \in RunIds : CancelRequested(r)
    \/ \E r \in RunIds : KillOnCancel(r)
    \/ \E r \in RunIds : ProcessClose(r)
    \/ \E r \in RunIds : \E o \in OutcomesFor(goRuns[r].cfg) : BuildEventsParsed(r, o)
    \/ \E r \in RunIds : ReportsConverted(r)
    \/ \E r \in RunIds : CoverageProcessed(r)
    \/ \E r \in RunIds : CloseHandlerEnds(r)

(***************************************************************************)
(* getBazelArgs: the argument vector that follows the 'bazel' command.     *)
(* An argument is a sequence of pieces; the value of the test filter is    *)
(* kept character by character, a test name being a sequence of            *)
(* characters.                                                             *)
(***************************************************************************)

\* the characters of TEST_NAME_SPECIAL_CHARACTERS
SpecialCharacters ==
    {".", "*", "+", "?", "^", "$", "{", "}", "(", ")", "|", "[", "]", "\\"}

\* the characters test names are drawn from: one plain, one special, the separator
NameChars == {"a", ".", Slash}

MaxNameLen == 5

\* the names of tests and subtests: non-empty segments separated by slashes
TestNames(n) ==
    { s \in UNION { [1..k -> NameChars] : k \in 1..n } :
        /\ s[1] # Slash
        /\ s[Len(s)] # Slash
        /\ \A i \in 1..(Len(s) - 1) : ~(s[i] = Slash /\ s[i + 1] = Slash) }

\* curr.replace(TEST_NAME_SPECIAL_CHARACTERS, '\\$&'): a global replace
EscapeSpecial(name) ==
    Flatten([i \in 1..Len(name) |->
                IF name[i] \in SpecialCharacters THEN <<"\\", name[i]>> ELSE <<name[i]>>])

\* s.replace('/', '$/^'): a string pattern replaces its first occurrence only
ReplaceFirstSlash(s) ==
    IF \E i \in 1..Len(s) : s[i] = Slash
    THEN LET i == CHOOSE j \in 1..Len(s) :
                      s[j] = Slash /\ \A k \in 1..(j - 1) : s[k] # Slash
         IN  SubSeq(s, 1, i - 1) \o <<"$", Slash, "^">> \o SubSeq(s, i + 1, Len(s))
    ELSE s

\* filterFunctions.join('|')
RECURSIVE JoinBar(_)
JoinBar(fs) ==
    IF fs = <<>> THEN <<>>
    ELSE IF Len(fs) = 1 THEN fs[1]
    ELSE fs[1] \o <<"|">> \o JoinBar(Tail(fs))

FilterFlag == "--test_filter='"

\* the filter argument, as a list of no or one argument
TestFilter(testconfig, bazelTargets) ==
    IF Len(bazelTargets) = 1 /\ testconfig.functions.defined
    THEN LET filterFunctions ==
                 [i \in 1..Len(testconfig.functions.names) |->
                     ReplaceFirstSlash(EscapeSpecial(testconfig.functions.names[i]))]
         IN  IF Len(filterFunctions) = 1
             THEN << <<FilterFlag, "^">> \o filterFunctions[1] \o <<"$", "'">> >>
             ELSE << <<FilterFlag, "^", "(">> \o JoinBar(filterFunctions)
                        \o <<")", "$", "'">> >>
    ELSE <<>>

\* the command verb
BazelCmd(testconfig, debugConfig) ==
    IF debugConfig.defined THEN "debug"
    ELSE IF testconfig.applyCodeCoverage THEN "coverage"
    ELSE IF testconfig.isBenchmark THEN "run"
    ELSE "test"

TestFlags(buildEventsFile) ==
    << <<"--build_tests_only">>,
       <<"--test_env=GO_TEST_WRAP_TESTV=1">>,
       <<"--build_event_json_file=", buildEventsFile>>,
       <<"--build_event_json_file_path_conversion=no">> >>

CoverageFlags ==
    << <<"--combined_report=lcov">>,
       <<"--@io_bazel_rules_go//go/config:cover_format=lcov">> >>

\* the switch on bazelCmd; Coverage falls through to the Test flags
ModeFlags(bazelCmd, buildEventsFile, debugConfig) ==
    CASE bazelCmd = "debug" -> << <<"--port=", debugConfig.port>> >>
      [] bazelCmd = "coverage" -> CoverageFlags \o TestFlags(buildEventsFile)
      [] OTHER -> TestFlags(buildEventsFile)

ToolTag == <<"--tool_tag=vscode-go-bazel">>
BenchMarker == <<"-- -test.bench=.">>

\* getBazelTestEnvVars: one --test_env argument per entry of the settings
getBazelTestEnvVars(goConfig) ==
    [i \in 1..Len(goConfig) |-> <<"--test_env=", goConfig[i].key, "=", goConfig[i].value>>]

\* a mutant: the targets are pushed before the test-environment flags
getBazelArgsTargetsFirst(testconfig, bazelTargets, buildEventsFile, debugConfig) ==
    << <<BazelCmd(testconfig, debugConfig)>> >>
        \o ModeFlags(BazelCmd(testconfig, debugConfig), buildEventsFile, debugConfig)
        \o <<ToolTag>>
        \o TestFilter(testconfig, bazelTargets)
        \o testconfig.flags
        \o bazelTargets
        \o getBazelTestEnvVars(testconfig.goConfig)
        \o (IF testconfig.isBenchmark THEN <<BenchMarker>> ELSE <<>>)

\* the arguments in the order they are pushed
getBazelArgs(testconfig, bazelTargets, buildEventsFile, debugConfig) ==
    << <<BazelCmd(testconfig, debugConfig)>> >>
        \o ModeFlags(BazelCmd(testconfig, debugConfig), buildEventsFile, debugConfig)
        \o <<ToolTag>>
        \o TestFilter(testconfig, bazelTargets)
        \o testconfig.flags
        \o getBazelTestEnvVars(testconfig.goConfig)
        \o bazelTargets
        \o (IF testconfig.isBenchmark THEN <<BenchMarker>> ELSE <<>>)

\* testconfig.functions: undefined, one name, or two names
Functions(names) == [defined |-> TRUE, names |-> names]
NoFunctions == [defined |-> FALSE, names |-> <<>>]
FunctionLists ==
    {NoFunctions}
        \cup { Functions(<<n>>) : n \in TestNames(MaxNameLen) }
        \cup { Functions(<<n, m>>) : n \in TestNames(MaxNameLen), m \in TestNames(MaxNameLen - 3) }

UserFlags == << <<"--user_sample_flag=TRUE">>, <<"--other_user_flag=FALSE">> >>
EnvSettings == {<<>>, <<[key |-> "K", value |-> "V"]>>}
TargetLists == { << <<"//pkg:go_default_test">> >>,
                 << <<"//pkg:all">>, <<"//other:all">> >> }
NoDebugConfig == [defined |-> FALSE, port |-> ""]
DebugConfigs == {NoDebugConfig, [defined |-> TRUE, port |-> "9876"]}
EventsFile == "/tmp/events.json"

ArgInputs ==
    [ functions : FunctionLists,
      flags : {<<>>, UserFlags},
      goConfig : EnvSettings,
      applyCodeCoverage : BOOLEAN,
      isBenchmark : BOOLEAN,
      bazelTargets : TargetLists,
      debugConfig : DebugConfigs ]

\* no call: no targets, no arguments
NoArgInput ==
    [ functions |-> NoFunctions, flags |-> <<>>, goConfig |-> <<>>,
      applyCodeCoverage |-> FALSE, isBenchmark |-> FALSE,
      bazelTargets |-> <<>>, debugConfig |-> NoDebugConfig ]

BaIdle ==
    /\ baInput = NoArgInput
    /\ baArgs = <<>>

BaInit ==
    /\ baInput \in ArgInputs
    /\ baArgs = <<>>

\* one call of getBazelArgs
GetBazelArgs ==
    /\ baInput # NoArgInput
    /\ baArgs = <<>>
    /\ baArgs' = getBazelArgs(baInput, baInput.bazelTargets, EventsFile, baInput.debugConfig)
    /\ UNCHANGED baInput
    /\ BaFrame

BaNext == GetBazelArgs

(***************************************************************************)
(* lcovLinesToEditorRanges: the decorations of one file of the coverage    *)
(* report.  A detail is a record with a 1-based line and a hit count.      *)
(***************************************************************************)

MaxDetails == 4

\* the details of LCOV DA records: a line number from 1 on, a count from 0 on
LineDetails == [line : 1..3, hit : 0..2]

LineCoverages ==
    UNION { [1..k -> LineDetails] : k \in 0..MaxDetails }

\* new vscode.Range(line - 1, 0, line - 1, 1000)
RangeOf(lineDetails) ==
    [ startLine |-> lineDetails.line - 1, startCharacter |-> 0,
      endLine |-> lineDetails.line - 1, endCharacter |-> 1000 ]

\* elaborate(range, count, showCounts): one decoration option for the range
elaborate(range, count, showCounts) ==
    << [range |-> range, count |-> count, showCounts |-> showCounts] >>

emptyCoverageData == [coveredOptions |-> <<>>, uncoveredOptions |-> <<>>]

\* a mutant: a line counts as covered from its second execution on
IsCoveredFromSecondHit(lineDetails) == lineDetails.hit > 1

\* lineDetails.hit > 0
IsCovered(lineDetails) == lineDetails.hit > 0

\* the for loop over lines.details, from detail i on
RECURSIVE DetailsLoop(_, _, _, _)
DetailsLoop(details, i, showCounts, coverage) ==
    IF i > Len(details) THEN coverage
    ELSE LET options == elaborate(RangeOf(details[i]), details[i].hit, showCounts)
         IN  DetailsLoop(details, i + 1, showCounts,
                 IF IsCovered(details[i])
                 THEN [coverage EXCEPT !.coveredOptions = @ \o options]
                 ELSE [coverage EXCEPT !.uncoveredOptions = @ \o options])

lcovLinesToEditorRanges(lines, showCounts) ==
    DetailsLoop(lines.details, 1, showCounts, emptyCoverageData)

NoLines == [found |-> 0, hit |-> 0, details |-> <<>>]
NoCoverage == [returned |-> FALSE, value |-> emptyCoverageData]

\* the LcovPart of a file: found and hit as the report's LF and LH give them
LcovLinesOf(details) ==
    [ found |-> Len(details),
      hit |-> Cardinality({ i \in 1..Len(details) : details[i].hit > 0 }),
      details |-> details ]

LrIdle ==
    /\ lrLines = NoLines
    /\ lrShowCounts = FALSE
    /\ lrCoverage = NoCoverage

LrInit ==
    /\ lrLines \in { LcovLinesOf(d) : d \in LineCoverages }
    /\ lrShowCounts \in BOOLEAN
    /\ lrCoverage = NoCoverage

\* one call of lcovLinesToEditorRanges
ConvertLines ==
    /\ ~lrCoverage.returned
    /\ lrCoverage' = [returned |-> TRUE,
                      value |-> lcovLinesToEditorRanges(lrLines, lrShowCounts)]
    /\ UNCHANGED <<lrLines, lrShowCounts>>
    /\ LrFrame

LrNext == ConvertLines

(***************************************************************************)
(* GoCoverageHandler.  A path is a sequence of segments; a package of the  *)
(* in-scope list is the sequence of the segments of its name.  Two runs of *)
(* BazelGoTestRunner.run share the handler.                                *)
(***************************************************************************)

MaxRecords == 2

BazelWorkspaceRoot == <<"repo">>
CurrentGoWorkspace == <<"repo", "src">>
\* makeVariable.GENDIR of the configuration record of the event log, and
\* the prefix of a run whose log had no such record: genDir || ''
GeneratedFilePrefix == <<"gen">>
NoGeneratedFilePrefix == <<>>

\* the files of a combined report, relative to the Bazel workspace root
FooP   == <<"src", "p", "foo.go">>
BarP   == <<"src", "p", "bar.go">>
FooSub == <<"src", "p", "sub", "foo.go">>
FooTop == <<"src", "foo.go">>
FooPq  == <<"src", "pq", "foo.go">>
GenP   == <<"gen", "src", "p", "gen.go">>
CoverageFiles == {FooP, BarP, FooSub, FooTop, FooPq, GenP}

PkgP   == <<"p">>
PkgSub == <<"p", "sub">>
PkgQ   == <<"q">>

\* the lines of a file as the parser of the report gives them
CoverageLines ==
    { LcovLinesOf(<<[line |-> 1, hit |-> 1], [line |-> 2, hit |-> 0]>>),
      LcovLinesOf(<<[line |-> 3, hit |-> 0]>>) }

LcovFiles == [file : CoverageFiles, lines : CoverageLines]

\* what lcovParse hands to its callback: an error, or a non-empty list of files
ParseFailed == [err |-> TRUE, data |-> <<>>]
Parsed(data) == [err |-> FALSE, data |-> data]
ParseResults(n) ==
    {ParseFailed} \cup { Parsed(d) : d \in UNION { [1..k -> LcovFiles] : k \in 1..n } }

\* generatedFileMapper: none configured, one that maps, one that throws
Mappers == {"none", "maps", "throws"}

CoverageInputs ==
    [ parsed : ParseResults(MaxRecords),
      targetPackages : {<<PkgP>>, <<PkgP, PkgSub>>, <<PkgQ>>},
      generatedFilePrefix : {GeneratedFilePrefix, NoGeneratedFilePrefix},
      generatedFileMapper : Mappers ]

\* the second run: a report of one file of package p, or no report
SecondInputs ==
    [ parsed : {ParseFailed, Parsed(<<[file |-> FooP, lines |-> LcovLinesOf(<<[line |-> 3, hit |-> 0]>>)]>>)},
      targetPackages : {<<PkgP>>},
      generatedFilePrefix : {GeneratedFilePrefix},
      generatedFileMapper : {"none"} ]

InputsOf(r) == IF r = "a" THEN CoverageInputs ELSE SecondInputs

\* path.join of two normalized paths
pathJoin(root, file) == root \o file

\* the length of the common prefix of two paths
RECURSIVE CommonLen(_, _)
CommonLen(p, q) ==
    IF p = <<>> \/ q = <<>> \/ Head(p) # Head(q) THEN 0
    ELSE 1 + CommonLen(Tail(p), Tail(q))

\* path.relative(from, to)
pathRelative(from, to) ==
    LET n == CommonLen(from, to)
    IN  [i \in 1..(Len(from) - n) |-> ".."] \o SubSeq(to, n + 1, Len(to))

\* path.dirname of a relative path
pathDirname(p) == IF Len(p) <= 1 THEN <<".">> ELSE SubSeq(p, 1, Len(p) - 1)

\* path.basename
pathBasename(p) == p[Len(p)]

IsPrefixOf(p, q) == Len(p) <= Len(q) /\ SubSeq(q, 1, Len(p)) = p

\* does getSourceFileAbsolutePath hand the file to the mapper
UsesMapper(config, coverageFile) ==
    IsPrefixOf(config.generatedFilePrefix, coverageFile) /\ config.generatedFileMapper # "none"

\* getSourceFileAbsolutePath, for a mapper that returns: the mapper takes the
\* prefix of the configuration off the path
getSourceFileAbsolutePath(config, coverageFile) ==
    IF UsesMapper(config, coverageFile)
    THEN pathJoin(BazelWorkspaceRoot,
                  SubSeq(coverageFile, Len(config.generatedFilePrefix) + 1, Len(coverageFile)))
    ELSE pathJoin(BazelWorkspaceRoot, coverageFile)

\* a Map in insertion order: a sequence of entries with distinct keys
MapHas(map, key) == \E i \in 1..Len(map) : map[i].key = key
MapGet(map, key) == map[CHOOSE i \in 1..Len(map) : map[i].key = key].value
MapSet(map, key, value) ==
    IF MapHas(map, key)
    THEN [i \in 1..Len(map) |-> IF map[i].key = key THEN [key |-> key, value |-> value]
                                 ELSE map[i]]
    ELSE Append(map, [key |-> key, value |-> value])

\* a mutant: a package is in scope when an entry of the list is a prefix of it
InScopeByPrefix(targetPackages, pkg) ==
    \E i \in 1..Len(targetPackages) : IsPrefixOf(targetPackages[i], pkg)

\* config.targetPackages.includes(pkg)
InScope(targetPackages, pkg) ==
    \E i \in 1..Len(targetPackages) : targetPackages[i] = pkg

\* the root node created for a package
NewPackageNode(pkg) ==
    [displayName |-> pkg, absolutePath |-> pkg, hits |-> 0, lines |-> 0, children |-> <<>>]

\* a mutant: the child is pushed and the totals of the package are left alone
AddFileKeepsTotals(pkgRootNode, coverageForFile, fileAbsolutePath, fileRelativePath) ==
    [pkgRootNode EXCEPT
        !.children = Append(@, [displayName |-> pathBasename(fileRelativePath),
                                absolutePath |-> fileAbsolutePath,
                                hits |-> coverageForFile.lines.hit,
                                lines |-> coverageForFile.lines.found])]

\* the totals of the package grow by the file's, and the file becomes a child
AddFile(pkgRootNode, coverageForFile, fileAbsolutePath, fileRelativePath) ==
    [pkgRootNode EXCEPT
        !.hits = @ + coverageForFile.lines.hit,
        !.lines = @ + coverageForFile.lines.found,
        !.children = Append(@, [displayName |-> pathBasename(fileRelativePath),
                                absolutePath |-> fileAbsolutePath,
                                hits |-> coverageForFile.lines.hit,
                                lines |-> coverageForFile.lines.found])]

\* the for loop of processLcovFiles from file i on; threw when the mapper throws
RECURSIVE LcovLoop(_, _, _, _, _)
LcovLoop(data, i, config, coveragePath, resultsTree) ==
    IF i > Len(data)
    THEN [threw |-> FALSE, coveragePath |-> coveragePath, resultsTree |-> resultsTree]
    ELSE IF UsesMapper(config, data[i].file) /\ config.generatedFileMapper = "throws"
    THEN [threw |-> TRUE, coveragePath |-> <<>>, resultsTree |-> <<>>]
    ELSE LET fileAbsolutePath == getSourceFileAbsolutePath(config, data[i].file)
             fileRelativePath == pathRelative(CurrentGoWorkspace, fileAbsolutePath)
             pkg == pathDirname(fileRelativePath)
         IN  IF ~InScope(config.targetPackages, pkg)
             THEN LcovLoop(data, i + 1, config, coveragePath, resultsTree)
             ELSE LcovLoop(data, i + 1, config,
                      MapSet(coveragePath, fileAbsolutePath,
                             lcovLinesToEditorRanges(data[i].lines, FALSE)),
                      MapSet(resultsTree, pkg,
                             AddFile(IF MapHas(resultsTree, pkg) THEN MapGet(resultsTree, pkg)
                                     ELSE NewPackageNode(pkg),
                                     data[i], fileAbsolutePath, fileRelativePath)))

\* processLcovFiles up to the calls that publish its two maps
processLcovFiles(data, config) == LcovLoop(data, 1, config, <<>>, <<>>)

\* createCoverageData: the entries of coveragePath are set in the coverage data
createCoverageData(data, coveragePath) ==
    [ p \in DOMAIN data \cup { coveragePath[i].key : i \in 1..Len(coveragePath) } |->
        IF MapHas(coveragePath, p) THEN MapGet(coveragePath, p) ELSE data[p] ]

\* clearCoverage: no file has coverage data
NoCoverageData == [p \in {} |-> emptyCoverageData]

\* Array.from(resultsTree.values()).forEach(addTreeRoot)
AddTreeRoots(roots, resultsTree) ==
    roots \o [i \in 1..Len(resultsTree) |-> resultsTree[i].value]

\* a mutant: a report that cannot be read is passed over in silence
ErrorMessagesQuiet(outcome) ==
    IF outcome = "parseError" THEN <<>>
    ELSE <<"Error while processing coverage data">>

\* the messages the catch block shows
ErrorMessages(outcome) ==
    IF outcome = "parseError" THEN <<"Unable to get coverage data for this run">>
    ELSE <<"Error while processing coverage data">>

CvIdle ==
    /\ coverageTreeRoots = <<>>
    /\ coverageData = NoCoverageData
    /\ cvMessages = <<>>
    /\ cvRuns = [r \in RunIds |-> [phase |-> "none", input |-> ParseFailed]]

CvInit ==
    /\ coverageTreeRoots = <<>>
    /\ coverageData = NoCoverageData
    /\ cvMessages = <<>>
    /\ \E ia \in InputsOf("a"), ib \in InputsOf("b") :
          cvRuns = [r \in RunIds |->
                       [phase |-> "new", input |-> IF r = "a" THEN ia ELSE ib]]

\* newRun: clearCoverageFromFiles, clearCoverageTree
NewRunClears ==
    /\ coverageData' = NoCoverageData
    /\ coverageTreeRoots' = <<>>

\* BazelGoTestRunner.run starts with coverage enabled: newRun, then the tests
CvRun(r) ==
    /\ cvRuns[r].phase = "new"
    /\ NewRunClears
    /\ cvRuns' = [cvRuns EXCEPT ![r].phase = "running"]
    /\ UNCHANGED cvMessages
    /\ CvFrame

\* the callback of lcovParse in processCoverProfile, up to resolve()
ProcessCoverProfile(r) ==
    /\ cvRuns[r].phase = "running"
    /\ LET input == cvRuns[r].input
           result == processLcovFiles(input.parsed.data, input)
       IN  IF input.parsed.err
           THEN /\ cvMessages' = cvMessages \o ErrorMessages("parseError")
                /\ cvRuns' = [cvRuns EXCEPT ![r].phase = "failed"]
                /\ UNCHANGED <<coverageTreeRoots, coverageData>>
           ELSE IF result.threw
           THEN /\ cvMessages' = cvMessages \o ErrorMessages("error")
                /\ cvRuns' = [cvRuns EXCEPT ![r].phase = "failed"]
                /\ UNCHANGED <<coverageTreeRoots, coverageData>>
           ELSE /\ coverageData' = createCoverageData(coverageData, result.coveragePath)
                /\ coverageTreeRoots' = AddTreeRoots(coverageTreeRoots, result.resultsTree)
                /\ cvRuns' = [cvRuns EXCEPT ![r].phase = "processed"]
                /\ UNCHANGED cvMessages
    /\ CvFrame

\* the tests of the run fail, or no execution root is known: no coverage step
EndsWithoutCoverage(r) ==
    /\ cvRuns[r].phase = "running"
    /\ cvRuns' = [cvRuns EXCEPT ![r].phase = "ended"]
    /\ UNCHANGED <<coverageTreeRoots, coverageData, cvMessages>>
    /\ CvFrame

\* the command go.coverageTree.clear: newRun(false)
ClearCommand ==
    /\ NewRunClears
    /\ UNCHANGED <<cvRuns, cvMessages>>
    /\ CvFrame

CvNext ==
    \/ \E r \in RunIds : CvRun(r)
    \/ \E r \in RunIds : ProcessCoverProfile(r)
    \/ \E r \in RunIds : EndsWithoutCoverage(r)
    \/ ClearCommand

(***************************************************************************)
(* processTestResultXML: the reports of a run are read, parsed, converted  *)
(* and forwarded one after the other.  A report is a file that is missing  *)
(* or unreadable, a file that is not well-formed XML, or a document.       *)
(***************************************************************************)

MaxReports == 3

MissingFile   == [kind |-> "missing", doc |-> <<>>]
MalformedFile == [kind |-> "malformed", doc |-> <<>>]
Document(doc) == [kind |-> "document", doc |-> doc]

\* one passing case; a filtered suite and a failing case with two lines of
\* text; a passing case followed by a failure without text
ReportFiles ==
    { MissingFile, MalformedFile,
      Document(<<SuiteOf(1, <<PassKind>>)>>),
      Document(<<EmptySuite(1), SuiteOf(2, <<FailKind>>)>>),
      Document(<<SuiteOf(1, <<PassKind>>), SuiteOf(2, <<FailNoTextKind>>)>>) }

ReportLists == UNION { [1..k -> ReportFiles] : k \in 0..MaxReports }

\* the events of the cases before the first case that throws
RECURSIVE EventsUntilThrow(_)
EventsUntilThrow(cs) ==
    IF cs = <<>> \/ CaseThrows(Head(cs).case) THEN <<>>
    ELSE CaseEvents(Head(cs).pkg, Head(cs).case) \o EventsUntilThrow(Tail(cs))

\* a mutant: the events are forwarded while the document is converted
ReadAndConvertForwarding(file) ==
    IF file.kind # "document" THEN [ok |-> FALSE, events |-> <<>>]
    ELSE LET goTestOutput == testResultXMLToGoTestOutput(file.doc)
         IN  IF goTestOutput.state = "threw"
             THEN [ok |-> FALSE, events |-> EventsUntilThrow(DocCases(file.doc))]
             ELSE [ok |-> TRUE, events |-> goTestOutput.value]

\* the try block up to the forwarding loop: readFileSync, parseStringPromise
\* and the converter each throw or hand on; the events to forward
ReadAndConvert(file) ==
    IF file.kind # "document" THEN [ok |-> FALSE, events |-> <<>>]
    ELSE LET goTestOutput == testResultXMLToGoTestOutput(file.doc)
         IN  IF goTestOutput.state = "threw"
             THEN [ok |-> FALSE, events |-> <<>>]
             ELSE [ok |-> TRUE, events |-> goTestOutput.value]

FoundLine(n)      == [level |-> "INFO", text |-> "test result files found", about |-> n]
CompletedLine(i)  == [level |-> "INFO", text |-> "Completed parsing of test results from", about |-> i]
UnableLine(i)     == [level |-> "ERROR", text |-> "Unable to parse test results from", about |-> i]

PxIdle ==
    /\ pxFiles = <<>>
    /\ pxIndex = 0
    /\ pxForwarded = <<>>
    /\ pxChannel = <<>>

PxInit ==
    /\ pxFiles \in ReportLists
    /\ pxIndex = 0
    /\ pxForwarded = <<>>
    /\ pxChannel = <<>>

\* the call: the number of files is written to the channel
ProcessTestResultXML ==
    /\ pxIndex = 0
    /\ pxChannel = <<>>
    /\ pxIndex' = 1
    /\ pxChannel' = <<FoundLine(Len(pxFiles))>>
    /\ UNCHANGED <<pxFiles, pxForwarded>>
    /\ PxFrame

\* one iteration of the loop over xmlFilePaths
NextFile ==
    /\ pxIndex \in 1..Len(pxFiles)
    /\ \E result \in {ReadAndConvert(pxFiles[pxIndex])} :
          /\ pxForwarded' = pxForwarded
                \o [k \in 1..Len(result.events) |-> [file |-> pxIndex, event |-> result.events[k]]]
          /\ pxChannel' = Append(pxChannel,
                IF result.ok THEN CompletedLine(pxIndex) ELSE UnableLine(pxIndex))
    /\ pxIndex' = pxIndex + 1
    /\ UNCHANGED pxFiles
    /\ PxFrame

PxNext == ProcessTestResultXML \/ NextFile

(***************************************************************************)
(* GoTestResolver: the re-resolution of file items after a source edit.    *)
(* The workspace holds two documents of one package: main_test.go with     *)
(* the suite function and methods of the suite type, another_test.go with  *)
(* further methods of that type and a benchmark.  A symbol is the name the *)
(* scanner reports; RecvT starts the name of a method of the suite type.   *)
(***************************************************************************)
MainTest    == "main_test.go"
AnotherTest == "another_test.go"
Documents   == {MainTest, AnotherTest}

TestSampleTestSuite == <<"TestSampleTestSuite">>
BenchmarkBar        == <<"BenchmarkBar">>
TestSample(n)       == <<RecvT, "TestSample", n>>

\* what the documents may declare: the suite function stays in main_test.go
\* and the methods come and go
MainSymbols ==
    { {TestSampleTestSuite} \cup ms : ms \in SUBSET {TestSample("1"), TestSample("5")} }
AnotherSymbols ==
    SUBSET {TestSample("4"), TestSample("5"), TestSample("6"), BenchmarkBar}
Workspaces ==
    { (MainTest :> m) @@ (AnotherTest :> a) : m \in MainSymbols, a \in AnotherSymbols }

\* the kind a symbol name matches
KindOf(symbol) ==
    IF symbol[1] = "BenchmarkBar" THEN "benchmark" ELSE "test"

IsMethodSymbol(symbol) == symbol[1] \in ReceiverPrefixes

\* a mutant: the id names the package directory, not the document
GoTestIdOfPackage(uri, kind, name) ==
    <<"proj", "?", kind>> \o (IF name = <<>> THEN <<>> ELSE <<"#">> \o name)

\* GoTest.id(uri, kind, name): the uri with the kind as its query and the
\* name, when there is one, as its fragment
GoTestId(uri, kind, name) ==
    <<uri, "?", kind>> \o (IF name = <<>> THEN <<>> ELSE <<"#">> \o name)

\* GoTest.parseId(id)
GoTestParseId(id) ==
    [uri  |-> id[1],
     kind |-> id[3],
     name |-> IF Len(id) > 4 THEN SubSeq(id, 5, Len(id)) ELSE <<>>]

\* ctrl.createTestItem(id, label, uri) in the children of the item that goes
\* by the id parent (the empty id: the root collection)
TestItem(id, label, uri, parent) ==
    [id |-> id, label |-> label, uri |-> uri, parent |-> parent]

FileId(doc) == GoTestId(doc, "file", <<>>)

\* the file items the harness creates before the first call of resolve
RootItems ==
    { TestItem(FileId(doc), <<doc>>, doc, <<>>) : doc \in Documents }

\* item.children of the items that go by the id parent
ChildrenOf(items, parent) == {t \in items : t.parent = parent}

\* TestItemCollection.get(id) on the children of parent finds an item
HasChild(items, parent, id) == \E t \in ChildrenOf(items, parent) : t.id = id

\* the id of the suite function the methods of the suite type belong to
SuiteFuncId == GoTestId(MainTest, "test", TestSampleTestSuite)

\* the suite function is known once a document that declares it is resolved
SuiteFuncKnown(items) == HasChild(items, FileId(MainTest), SuiteFuncId)

\* what dispose(resolver, item) takes out of the tree: the item, and its
\* children with it
RECURSIVE ItemsBelow(_, _)
ItemsBelow(items, item) ==
    {item} \cup UNION { ItemsBelow(items \ {item}, t) : t \in ChildrenOf(items \ {item}, item.id) }

\* processSymbol: the item that goes by the id of the symbol is kept where
\* it is (below the file item or below the suite function); a missing one is
\* created below the suite function when the symbol is a method and the
\* suite function is known, else below the file item
processSymbol(items, doc, symbol) ==
    LET func   == IsMethodSymbol(symbol) /\ SuiteFuncKnown(items)
        id     == GoTestId(doc, KindOf(symbol), symbol)
        label  == IF IsMethodSymbol(symbol) THEN Tail(symbol) ELSE symbol
        parent == IF func THEN SuiteFuncId ELSE FileId(doc)
    IN  IF HasChild(items, FileId(doc), id) \/ (func /\ HasChild(items, SuiteFuncId, id))
        THEN items
        ELSE items \cup {TestItem(id, label, doc, parent)}

\* the loop over the symbols of the document: the functions come before the
\* methods
RECURSIVE ProcessSymbols(_, _, _)
ProcessSymbols(items, doc, symbols) ==
    IF symbols = {} THEN items
    ELSE LET first == CHOOSE s \in symbols :
                         IsMethodSymbol(s) => \A t \in symbols : IsMethodSymbol(t)
         IN  ProcessSymbols(processSymbol(items, doc, first), doc, symbols \ {first})

\* the items of the document that the scan did not see: children of the
\* file item, and children of the suite function that this document declared
Unseen(items, doc, seen) ==
    { t \in ChildrenOf(items, FileId(doc)) \cup
            {k \in ChildrenOf(items, SuiteFuncId) : k.uri = doc} :
        GoTestParseId(t.id).name \notin seen }

\* GoTestResolver.processDocument(doc): the symbols of the document are
\* matched with the items by id, then the items without a symbol go
processDocument(items, doc, symbols) ==
    LET scanned == ProcessSymbols(items, doc, symbols)
    IN  scanned \ UNION { ItemsBelow(scanned, t) : t \in Unseen(scanned, doc, symbols) }

\* the ids in the tree
IdsOf(items) == {t.id : t \in items}

NoResolve == [file |-> "none", before |-> {}]

RxIdle ==
    /\ rxWorkspace = <<>>
    /\ rxItems = {}
    /\ rxLast = NoResolve

RxInit ==
    /\ rxWorkspace \in Workspaces
    /\ rxItems = RootItems
    /\ rxLast = NoResolve

\* resolver.resolve(item) for a file item
ResolveFile(doc) ==
    /\ rxItems' = processDocument(rxItems, doc, rxWorkspace[doc])
    /\ rxLast' = [file |-> doc, before |-> IdsOf(rxItems)]
    /\ UNCHANGED rxWorkspace
    /\ RxFrame

\* the text of a document changes
UpdateFile(doc, symbols) ==
    /\ symbols # rxWorkspace[doc]
    /\ rxWorkspace' = [rxWorkspace EXCEPT ![doc] = symbols]
    /\ rxLast' = NoResolve
    /\ UNCHANGED rxItems
    /\ RxFrame

RxNext ==
    \/ \E doc \in Documents : ResolveFile(doc)
    \/ \E symbols \in MainSymbols : UpdateFile(MainTest, symbols)
    \/ \E symbols \in AnotherSymbols : UpdateFile(AnotherTest, symbols)

(***************************************************************************)
(* BazelGoTestRunner.run and runWithCoverage as asynchronous calls: a call *)
(* runs up to its await of super.run in one step, the invocations of       *)
(* runGoTest of that run follow one by one, and the rest of the call runs  *)
(* when super.run has returned.  Two calls are enough to overlap.          *)
(***************************************************************************)
CallIds == {"first", "second"}

\* request.include of the calls
RunIncludes == { {MethodTM}, {MethodTM, PlainItem} }

\* the most build-tool invocations super.run makes for one request
MaxInvocations == 2

NewCall(phase) ==
    [phase |-> phase, withCoverage |-> FALSE, include |-> {}, removedItems |-> {},
     preservedCoverageState |-> FALSE, applied |-> <<>>, atReturn |-> FALSE]

RcIdle ==
    /\ coverageEnabled = FALSE
    /\ rcIsTestMethod = ScannedTree.isTestMethod
    /\ rcCalls = [c \in CallIds |-> NewCall("off")]

RcInit ==
    /\ coverageEnabled \in BOOLEAN
    /\ rcIsTestMethod = ScannedTree.isTestMethod
    /\ rcCalls = [c \in CallIds |-> NewCall("idle")]

\* run(request), or runWithCoverage(request) with the flag set before it
\* calls run: the included test methods leave isTestMethod, then the call
\* awaits super.run
RunCall(c, include, withCoverage) ==
    /\ rcCalls[c].phase \in {"idle", "done"}
    /\ coverageEnabled' = (withCoverage \/ coverageEnabled)
    /\ rcIsTestMethod' = rcIsTestMethod \ include
    /\ rcCalls' = [rcCalls EXCEPT ![c] =
                      [phase |-> "running", withCoverage |-> withCoverage,
                       include |-> include,
                       removedItems |-> include \cap rcIsTestMethod,
                       preservedCoverageState |-> coverageEnabled,
                       applied |-> <<>>, atReturn |-> FALSE]]
    /\ RcFrame

\* runGoTest of a run in progress: applyCodeCoverage is read from the flag
RunGoTestOf(c) ==
    /\ rcCalls[c].phase = "running"
    /\ Len(rcCalls[c].applied) < MaxInvocations
    /\ rcCalls' = [rcCalls EXCEPT ![c].applied = Append(@, coverageEnabled)]
    /\ UNCHANGED <<coverageEnabled, rcIsTestMethod>>
    /\ RcFrame

\* super.run has returned: run adds its removedItems to isTestMethod, and
\* runWithCoverage writes the preserved state to the flag
RunCallReturns(c) ==
    /\ rcCalls[c].phase = "running"
    /\ rcIsTestMethod' = rcIsTestMethod \cup rcCalls[c].removedItems
    /\ coverageEnabled' = IF rcCalls[c].withCoverage
                          THEN rcCalls[c].preservedCoverageState
                          ELSE coverageEnabled
    /\ rcCalls' = [rcCalls EXCEPT ![c].phase = "done",
                                  ![c].atReturn = coverageEnabled']
    /\ RcFrame

\* the command of the status bar item
ToggleCoverage ==
    /\ coverageEnabled' = ~coverageEnabled
    /\ UNCHANGED <<rcIsTestMethod, rcCalls>>
    /\ RcFrame

RcNext ==
    \/ \E c \in CallIds, include \in RunIncludes, withCoverage \in BOOLEAN :
          RunCall(c, include, withCoverage)
    \/ \E c \in CallIds : RunGoTestOf(c)
    \/ \E c \in CallIds : RunCallReturns(c)
    \/ ToggleCoverage

(***************************************************************************)
(* consumeGoTestEvent, case 'fail': the messages handed to run.failed.  A  *)
(* TestMessage has a text (a sequence of lines) and an optional location;  *)
(* one file of the locations exists on disk, the other (generated code)    *)
(* does not.                                                               *)
(***************************************************************************)
SourceFile    == "a_test.go"
GeneratedFile == "gen.go"

\* fs.existsSync(location.uri.fsPath)
existsSync(uri) == uri = SourceFile

NoLocation == [defined |-> FALSE, uri |-> "undefined", line |-> 0]
LocationAt(uri, line) == [defined |-> TRUE, uri |-> uri, line |-> line]

Locations ==
    {NoLocation} \cup { LocationAt(uri, line) : uri \in {SourceFile, GeneratedFile},
                                                line \in 1..2 }

TestMessages == [message : {<<"msg">>}, location : Locations]

\* the most messages parseOutput returns for one test
MaxOutput == 3

MessageLists == UNION { [1..k -> TestMessages] : k \in 0..MaxOutput }

\* `${location?.uri}:${location?.range.start.line}`
LocKey(location) == <<location.uri, location.line>>

\* the for loop over messages from position i on
RECURSIVE MergeLoop(_, _, _, _)
MergeLoop(messages, i, merged, lastValidLoc) ==
    IF i > Len(messages) THEN merged
    ELSE LET message  == messages[i].message
             location == messages[i].location
             loc      == LocKey(location)
         IN  IF MapHas(merged, loc)
             THEN MergeLoop(messages, i + 1,
                      MapSet(merged, loc,
                             [MapGet(merged, loc) EXCEPT !.message = @ \o message]),
                      lastValidLoc)
             ELSE IF location.defined /\ existsSync(location.uri)
             THEN MergeLoop(messages, i + 1,
                      MapSet(merged, loc, [message |-> message, location |-> location]),
                      location)
             ELSE MergeLoop(messages, i + 1,
                      MapSet(merged, loc, [message |-> message, location |-> lastValidLoc]),
                      lastValidLoc)

\* the messages of run.failed(test, ...): as parsed without concat, else
\* Array.from(merged.values())
FailedMessages(messages, concat) ==
    IF ~concat THEN messages
    ELSE LET merged == MergeLoop(messages, 1, <<>>, NoLocation)
         IN  [k \in 1..Len(merged) |-> merged[k].value]

NotFailed == [called |-> FALSE, messages |-> <<>>]

FmIdle ==
    /\ fmMessages = <<>>
    /\ fmConcat = FALSE
    /\ fmFailed = NotFailed

FmInit ==
    /\ fmMessages \in MessageLists
    /\ fmConcat \in BOOLEAN
    /\ fmFailed = NotFailed

\* a fail event of a test that resolves reaches consumeGoTestEvent
ConsumeFail ==
    /\ ~fmFailed.called
    /\ fmFailed' = [called |-> TRUE, messages |-> FailedMessages(fmMessages, fmConcat)]
    /\ UNCHANGED <<fmMessages, fmConcat>>
    /\ FmFrame

FmNext == ConsumeFail

(***************************************************************************)
(* CoverageTreeProvider.getTreeItem: the description of a node of the      *)
(* coverage tree.                                                          *)
(***************************************************************************)
\* the largest number of lines and hits of a node
MaxCount == 6

CoverageTreeNodes == [hits : 0..MaxCount, lines : 0..MaxCount, hasChildren : BOOLEAN]

\* element.hits / element.lines: a number, or NaN (0 / 0), or Infinity
Quotient(hits, lines) ==
    IF lines # 0 THEN [kind |-> "number", dividend |-> hits, divisor |-> lines]
    ELSE IF hits = 0 THEN [kind |-> "NaN", dividend |-> hits, divisor |-> lines]
    ELSE [kind |-> "Infinity", dividend |-> hits, divisor |-> lines]

\* toLocaleString('en', { style: 'percent' }): the percentage rounded to a
\* whole number (halves away from zero), "NaN" and the infinity sign
PercentText(q) ==
    IF q.kind = "number"
    THEN [kind |-> "number", percent |-> (200 * q.dividend + q.divisor) \div (2 * q.divisor)]
    ELSE [kind |-> q.kind, percent |-> 0]

\* getTreeItem(element): the parts of item.description, with the division
\* that produced the percentage
getTreeItem(element) ==
    [division |-> Quotient(element.hits, element.lines),
     percent  |-> PercentText(Quotient(element.hits, element.lines)),
     lines    |-> element.lines,
     hits     |-> element.hits,
     opens    |-> ~element.hasChildren]

NoTreeItem == [called |-> FALSE, item |-> getTreeItem([hits |-> 0, lines |-> 1, hasChildren |-> TRUE])]

TiIdle ==
    /\ tiElement = [hits |-> 0, lines |-> 1, hasChildren |-> TRUE]
    /\ tiItem = NoTreeItem

TiInit ==
    /\ tiElement \in CoverageTreeNodes
    /\ tiItem = NoTreeItem

\* the view asks for the item of the element
GetTreeItem ==
    /\ ~tiItem.called
    /\ tiItem' = [called |-> TRUE, item |-> getTreeItem(tiElement)]
    /\ UNCHANGED tiElement
    /\ TiFrame

TiNext == GetTreeItem

EcIdle ==
    /\ sawError = FALSE
    /\ output = <<>>
    /\ ecArg = Undefined
    /\ ecBefore = [sawError |-> FALSE, output |-> <<>>, called |-> FALSE]

vars == <<ecVars, xmlVars, beVars, trVars, goVars, baVars, lrVars, cvVars, pxVars, rxVars, rcVars, fmVars, tiVars>>

(***************************************************************************)
(* Properties of the error-message collector.                              *)
(***************************************************************************)
\* a non-empty message that matches none of the three patterns
IsContinuation(arg) ==
    /\ arg.defined
    /\ arg.text # <<>>
    /\ \A i \in 1..Len(arg.text) : ~IsErrorLine(arg.text[i])
    /\ ~IsLogLine(arg.text[1])
    /\ ~IsProgressLine(arg.text[1])

\* C2 as stated: every continuation line that follows a pending error is
\* appended verbatim and leaves sawError true, and only a log-level or
\* progress line clears the flag.
C2_FlagStaysTrue ==
    (ecBefore.called /\ ecBefore.sawError /\ IsContinuation(ecArg)) =>
        /\ output = Append(ecBefore.output, ecArg.text)
        /\ sawError

\* a step that is a call of the collector with the argument arg
IsCollectorCall(arg) == ecArg' = arg /\ ecBefore'.called

\* C31: a call of the collector with an absent or empty argument leaves the
\* list and the pending-error flag as they were, and a continuation line
\* passed while an error is pending is appended as it is; so a call without
\* a message between an error line and its continuation line does not keep
\* the continuation out of the list.
C31_PeekChangesNothing ==
    [][\A arg \in CollectorArgs : IsCollectorCall(arg) =>
          /\ Falsy(arg) => (output' = output /\ sawError' = sawError)
          /\ (sawError /\ IsContinuation(arg)) => output' = Append(output, arg.text)
      ]_vars

\* a call without a message was made while an error was pending
C31_Witness ==
    /\ ecBefore.called
    /\ Falsy(ecArg)
    /\ ecBefore.sawError
    /\ sawError
    /\ output # <<>>

\* the first line of the message that introduces an error: the start of what
\* is appended for such a message
FromMatch(msg) ==
    SubSeq(msg, CHOOSE i \in 1..Len(msg) :
                    IsErrorLine(msg[i]) /\ \A j \in 1..(i - 1) : ~IsErrorLine(msg[j]),
           Len(msg))

\* C32: after a call with a message, the list has grown by the part of the
\* message from its error introduction onward when the message has one, by
\* the message itself when an error was pending and the message starts with
\* neither a log level nor a progress counter, and has not grown otherwise;
\* in that last case the pending-error flag is false.
C32_AppendsOnlyErrors ==
    (ecBefore.called /\ ~Falsy(ecArg)) =>
        IF \E i \in 1..Len(ecArg.text) : IsErrorLine(ecArg.text[i])
        THEN output = Append(ecBefore.output, FromMatch(ecArg.text))
        ELSE IF /\ ecBefore.sawError
                /\ ~IsLogLine(ecArg.text[1])
                /\ ~IsProgressLine(ecArg.text[1])
        THEN output = Append(ecBefore.output, ecArg.text)
        ELSE output = ecBefore.output /\ ~sawError

\* a message whose second line introduces the error was appended from that
\* line on
C32_Witness ==
    /\ ecBefore.called
    /\ ecArg = Str(<<InfoLine, ErrorLine, DetailLine>>)
    /\ output = Append(ecBefore.output, <<ErrorLine, DetailLine>>)

(***************************************************************************)
(* Properties of testResultXMLToGoTestOutput.                              *)
(***************************************************************************)
XmlReturned == xmlResult.state = "returned"
Results == xmlResult.value

IsOutput(e) == e.Action = "output"

\* the number of newlines of a text
RECURSIVE NLCount(_)
NLCount(text) ==
    IF text = <<>> THEN 0
    ELSE (IF Head(text) = NL THEN 1 ELSE 0) + NLCount(Tail(text))

\* lines.join('\n')
RECURSIVE Join(_)
Join(lines) ==
    IF Len(lines) = 0 THEN <<>>
    ELSE IF Len(lines) = 1 THEN lines[1]
    ELSE lines[1] \o <<NL>> \o Join(Tail(lines))

\* the failure entries of a failing case, the error entries of an errored one
CapturedEntries(c) == IF c.failure # <<>> THEN c.failure ELSE c.error

\* the output events of the case named n, in result order
OutputsOf(n) == SelectSeq(Results, LAMBDA e : IsOutput(e) /\ e.Test = n)

\* the content of an output event: Output without its final newline
LineOf(e) == SubSeq(e.Output, 1, Len(e.Output) - 1)

RECURSIVE SumLines(_)
SumLines(entries) ==
    IF entries = <<>> THEN 0
    ELSE NLCount(Head(entries).text) + 1 + SumLines(Tail(entries))

RECURSIVE NonEmptyLines(_)
NonEmptyLines(entries) ==
    IF entries = <<>> THEN 0
    ELSE Cardinality({k \in 1..Len(Split(Head(entries).text)) :
                         Split(Head(entries).text)[k] # <<>>})
         + NonEmptyLines(Tail(entries))

AllCases == DocCases(xmlDoc)

RECURSIVE TerminalPos(_, _, _)
TerminalPos(res, k, from) ==
    IF from > Len(res) THEN 0
    ELSE IF ~IsOutput(res[from])
         THEN (IF k = 1 THEN from ELSE TerminalPos(res, k - 1, from + 1))
         ELSE TerminalPos(res, k, from + 1)

\* C4: the output events of a failing or errored case are contiguous and
\* immediately before the terminal event of that case, in source line
\* order, and no event of another case lies in between.
C4_OutputsBeforeTerminal ==
    XmlReturned =>
        /\ Cardinality({i \in 1..Len(Results) : ~IsOutput(Results[i])}) = Len(AllCases)
        /\ \A k \in 1..Len(AllCases) :
            LET c == AllCases[k].case
                t == TerminalPos(Results, k, 1)
                prev == IF k = 1 THEN 0 ELSE TerminalPos(Results, k - 1, 1)
                lines == Flatten([i \in 1..Len(CapturedEntries(c)) |->
                                     Split(CapturedEntries(c)[i].text)])
            IN /\ t > 0
               /\ Results[t].Test = c.name
               /\ Results[t].Action \in {"fail", "errored"} <=> CapturedEntries(c) # <<>>
               /\ t - prev - 1 = Len(lines)
               /\ \A j \in 1..Len(lines) :
                     /\ IsOutput(Results[prev + j])
                     /\ Results[prev + j].Test = c.name
                     /\ LineOf(Results[prev + j]) = lines[j]
        /\ Len(Results) > 0 => ~IsOutput(Results[Len(Results)])

\* a failing case with two output events sits after another case's events
C4_Witness ==
    /\ XmlReturned
    /\ \E i \in 2..Len(Results) :
          /\ ~IsOutput(Results[i - 1])
          /\ i + 2 <= Len(Results)
          /\ IsOutput(Results[i]) /\ IsOutput(Results[i + 1])
          /\ Results[i + 2].Action \in {"fail", "errored"}
          /\ Results[i + 2].Test = Results[i].Test

\* C5 as stated: the converter returns for every valid document
C5_NeverThrows == xmlResult.state # "threw"

(***************************************************************************)
(* Properties of processBuildEvents.                                       *)
(***************************************************************************)
BeFailed == beChannel >= 1

\* C1: once a line has failed to parse, no later line changes the outcome,
\* the output channel holds exactly one malformed-stream diagnostic, and the
\* outcome handed to the caller is the one accumulated before that line.
C1_StopsAtFirstFailure ==
    BeFailed =>
        /\ outputs = beAtFailure
        /\ beChannel = 1
        /\ bePhase = "resolved" => beDelivered = beAtFailure

\* the event log as a whole: what the handler saw, then what it never saw
BeStream == beRead \o beUnread

\* a test-result record that names the canonical report artifact
NamesReport(line) ==
    /\ line.kind = "testResult"
    /\ line.payload
    /\ \E i \in DOMAIN line.testActionOutput : line.testActionOutput[i].name = TestXml

\* the uri such a record gives for the artifact, without its file:// prefix
ReportPathOf(line) ==
    LET i == CHOOSE j \in DOMAIN line.testActionOutput :
                 line.testActionOutput[j].name = TestXml
    IN SelectSeq(line.testActionOutput[i].uri, LAMBDA part : part # FileScheme)

RECURSIVE ReportPathsOfStream(_)
ReportPathsOfStream(stream) ==
    IF stream = <<>> THEN <<>>
    ELSE (IF NamesReport(Head(stream)) THEN <<ReportPathOf(Head(stream))>> ELSE <<>>)
         \o ReportPathsOfStream(Tail(stream))

\* a build-finished record with its payload
IsBuildFinished(line) == line.kind = "buildFinished" /\ line.payload

\* the code such a record carries, 0 when it carries none
CarriedCode(line) == IF line.hasCode THEN line.code ELSE 0

\* the stream ends in a build-finished record with code 0
EndsInSuccess(stream) ==
    /\ stream # <<>>
    /\ IsBuildFinished(stream[Len(stream)])
    /\ CarriedCode(stream[Len(stream)]) = Success

BuildFinishedOf(lines) == SelectSeq(lines, IsBuildFinished)

\* the exit code a sequence of lines stands for: the code of its (last)
\* build-finished record, the sentinel when it has none
ExitCodeOf(lines) ==
    IF BuildFinishedOf(lines) = <<>> THEN FailedToParse
    ELSE CarriedCode(BuildFinishedOf(lines)[Len(BuildFinishedOf(lines))])

\* C12 as stated: the delivered exit code is the code carried by the
\* build-finished record of the event log (0 when it carries none), and the
\* sentinel when the log has no such record.
C12_ExitCodeOfStream ==
    bePhase = "resolved" => beDelivered.exitCode = ExitCodeOf(BeStream)

\* C12: the delivered exit code is the code carried by the last
\* build-finished record the handler was called with (0 when the record
\* carries none); it is the FailedToParse sentinel when the handler was called
\* with no such record, and so whenever the event log holds none.
C12_ExitCodeOfRead ==
    bePhase = "resolved" =>
        /\ beDelivered.exitCode = ExitCodeOf(beRead)
        /\ BuildFinishedOf(BeStream) = <<>> => beDelivered.exitCode = FailedToParse

C12_Witness ==
    /\ bePhase = "resolved"
    /\ Len(BuildFinishedOf(beRead)) = 1
    /\ ~BuildFinishedOf(beRead)[1].hasCode
    /\ beDelivered.exitCode = 0

\* C13: whatever the event log holds and however reading it ends (end of
\* input, read error, missing file, malformed line, failure to open), the
\* caller of processBuildEvents receives an outcome, receives it once, and
\* the call never ends without one.
C13_AlwaysOneOutcome ==
    /\ <>[](bePhase = "resolved")
    /\ [][bePhase = "resolved" => UNCHANGED <<bePhase, beDelivered>>]_vars

\* the event-log file is missing: the stream fails before any line
C13_Witness ==
    /\ bePhase = "resolved"
    /\ beEnd = "error"
    /\ beRead = <<>>
    /\ beDelivered = InitialOutputs

\* C14: when the caller has its outcome the unlink of the event-log file has
\* been issued, once, whichever way reading ended; and while the reader is
\* still reading the file (it has neither ended, failed nor been closed) no
\* unlink has been issued.
C14_UnlinkAfterReading ==
    /\ bePhase = "resolved" => beUnlinks = 1 /\ beEnd # "none"
    /\ bePhase = "reading" => beUnlinks = 0 /\ beEnd = "none"
    /\ beUnlinks <= 1

\* the reader was closed on a failing line and left part of the log unread
C14_Witness ==
    /\ bePhase = "resolved"
    /\ beEnd = "close"
    /\ beUnread # <<>>
    /\ beUnlinks = 1

\* a step in which the 'line' handler runs, and the line it runs on
HandlerStep == Len(beRead') = Len(beRead) + 1
LineOfStep == beRead'[Len(beRead')]

\* valid JSON with an id object that has none of the recognised tags
HasNoTag(line) == line.kind = "unknownId"

\* valid JSON without the id object, or without the payload object of its tag
LacksObject(line) ==
    \/ line.kind = "noId"
    \/ line.kind \in {"buildFinished", "workspace", "started", "testResult", "configuration"}
          /\ ~line.payload

\* the handler went over the line: no diagnostic, no change to the outcome,
\* and the reader is in the phase it was in
PassedOver ==
    /\ beChannel' = beChannel
    /\ outputs' = outputs
    /\ bePhase' = bePhase

\* C15 as stated: a line of valid JSON that has none of the recognised tags,
\* or lacks the id or payload object, writes no diagnostic, leaves the outcome
\* unchanged and does not stop the reader.
C15_OnlyParseFailureStops ==
    [][HandlerStep /\ (HasNoTag(LineOfStep) \/ LacksObject(LineOfStep)) => PassedOver]_vars

\* C15: a line of valid JSON whose id object has none of the recognised tags
\* writes no diagnostic, leaves the outcome unchanged and does not stop the
\* reader; a line of valid JSON without the id object, or without the payload
\* object of its tag, is treated like a line that fails to parse: one
\* diagnostic, the outcome unchanged by it, and the reader closed.
C15_MissingObjectStops ==
    [][HandlerStep =>
          /\ HasNoTag(LineOfStep) => PassedOver
          /\ LacksObject(LineOfStep) =>
                /\ beChannel' = beChannel + 1
                /\ outputs' = outputs
                /\ bePhase' = "closing"]_vars

\* a line without a recognised tag was passed over and a later line was processed
C15_Witness ==
    /\ Len(beRead) >= 2
    /\ HasNoTag(beRead[1])
    /\ beChannel = 0
    /\ outputs.testXMLPaths # <<>>

\* the outcomes that end a test item in the test run
TerminalOutcomes == {"passed", "failed", "skipped", "errored"}

\* C20: when runGoTest has returned, whatever exit code the Bazel run gave
\* (or none), every test of the run that no event completed has been marked
\* passed, skipped or errored, and every test of the run has a terminal
\* outcome in the test run.
C20_NoTestLeftRunning ==
    runPhase = "ran" =>
        \A k \in 1..Len(tests) :
            /\ tests[k] \notin complete =>
                  \E o \in {"passed", "skipped", "errored"} : <<tests[k], o>> \in reported
            /\ \E o \in TerminalOutcomes : <<tests[k], o>> \in reported

\* a run returned with a test no event had completed, now marked errored
C20_Witness ==
    /\ runPhase = "ran"
    /\ \E k \in 1..Len(tests) :
          /\ tests[k] \notin complete
          /\ <<tests[k], "errored">> \in reported
    /\ \E k \in 1..Len(tests) : tests[k] \in complete

(***************************************************************************)
(* Properties of goTestWithBazel                                           *)
(***************************************************************************)
\* C16 as stated: no two live processes belong to invocations on one output
\* channel (and so on one event-log file).
C16_OneLivePerChannel ==
    \A r, q \in Live(goRuns) :
        r # q => ChannelOf(r, goRuns[r].cfg) # ChannelOf(q, goRuns[q].cfg)

\* C17: when the close handler of a run resolves, the coverage handler has
\* been invoked exactly if coverage was requested, the parsed exit code is
\* Success and the event log gave an execution root; before that point of the
\* handler it has not been invoked at all.
C17_CoverageExactlyOnSuccess ==
    \A r \in RunIds :
        /\ goRuns[r].phase \in {"covering", "resolved"} =>
              (goRuns[r].covered <=>
                  /\ goRuns[r].cfg.applyCodeCoverage
                  /\ goRuns[r].outcome.exitCode = Success
                  /\ goRuns[r].outcome.localExecRoot # None)
        /\ goRuns[r].phase \in {"setup", "live", "parsing", "converting"} =>
              ~goRuns[r].covered

\* a coverage run whose build succeeded has resolved with its profile processed
C17_Witness ==
    \E r \in RunIds :
        /\ goRuns[r].phase = "resolved"
        /\ goRuns[r].cfg.applyCodeCoverage
        /\ goRuns[r].outcome.exitCode = Success
        /\ goRuns[r].covered

\* the place of a step in the steps a close handler has taken, 0 when absent
StepAt(steps, name) ==
    IF \E i \in DOMAIN steps : steps[i] = name
    THEN CHOOSE i \in DOMAIN steps : steps[i] = name
    ELSE 0

\* if the later step was taken, the earlier one was taken before it
Precedes(steps, earlier, later) ==
    StepAt(steps, later) # 0 =>
        StepAt(steps, earlier) # 0 /\ StepAt(steps, earlier) < StepAt(steps, later)

\* C18: in every run the parser is called only after the process closed and
\* both line buffers were flushed; report conversion starts only after the
\* parser delivered; coverage starts only after the parser delivered and, when
\* there is a consumer, after conversion finished; and the result with the
\* exit code is delivered only after the parser, the conversion (when there is
\* a consumer) and the coverage step (when it runs) have finished.
C18_StepsInOrder ==
    \A r \in RunIds :
        /\ goRuns[r].phase \in {"setup", "live"} => goRuns[r].steps = <<>>
        /\ Precedes(goRuns[r].steps, "close", "outDone")
        /\ Precedes(goRuns[r].steps, "outDone", "parseStart")
        /\ Precedes(goRuns[r].steps, "errDone", "parseStart")
        /\ Precedes(goRuns[r].steps, "parseStart", "parseDone")
        /\ Precedes(goRuns[r].steps, "parseDone", "convertStart")
        /\ Precedes(goRuns[r].steps, "convertStart", "convertDone")
        /\ Precedes(goRuns[r].steps, "parseDone", "coverStart")
        /\ goRuns[r].cfg.goTestOutputConsumer =>
              Precedes(goRuns[r].steps, "convertDone", "coverStart")
        /\ Precedes(goRuns[r].steps, "coverStart", "coverDone")
        /\ Precedes(goRuns[r].steps, "parseDone", "resolve")
        /\ goRuns[r].cfg.goTestOutputConsumer =>
              Precedes(goRuns[r].steps, "convertDone", "resolve")
        /\ goRuns[r].covered => Precedes(goRuns[r].steps, "coverDone", "resolve")
        /\ goRuns[r].result.kind = "exit" => StepAt(goRuns[r].steps, "resolve") # 0

\* a run with a consumer and coverage went through every step
C18_Witness ==
    \E r \in RunIds :
        /\ goRuns[r].steps = <<"close", "outDone", "errDone", "parseStart", "parseDone",
                               "convertStart", "convertDone", "coverStart", "coverDone",
                               "resolve">>
        /\ goRuns[r].result.kind = "exit"

\* the process of the run is not running: it has closed
Terminated(r) == goRuns[r].phase \notin {"setup", "live"}

TreeItems(rs) == Subtree(rs, FileItem)

\* the test methods of the suites: the children of a test suite function
SuiteMethods(rs) ==
    { h \in TreeItems(rs) : rs.items[h].parent # 0
                            /\ rs.items[h].parent \in rs.isTestSuiteFunc }

\* the name Bazel reports for a suite method: suite name / method name
ReportedPath(rs, m) ==
    rs.items[rs.items[m].parent].name \o <<Slash>> \o
        extractInstanceTestName(rs.items[m].name)

\* the method of a suite an item lies below, 0 when there is none
RECURSIVE MethodAbove(_, _)
MethodAbove(rs, h) ==
    IF h = 0 \/ h \notin DOMAIN rs.items THEN 0
    ELSE IF h \in SuiteMethods(rs) THEN h
    ELSE MethodAbove(rs, rs.items[h].parent)

Twice(name) ==
    LET r1 == resolveTestName(resolver, tests, name)
        r2 == resolveTestName(r1.rs, tests, name)
    IN [first |-> r1, second |-> r2]

\* C6: resolving a name twice with no prune in between returns the identical
\* node both times and the second call leaves the tree as it was, a repeated
\* call of the run never answers differently, and the tree never holds two
\* nodes with the same subtest path below one test method.
C6_ResolveIdempotent ==
    /\ lastCall.repeat # "differs"
    /\ runPhase = "testing" =>
         \A name \in ReportedNames :
            /\ Twice(name).second.item = Twice(name).first.item
            /\ Twice(name).second.rs = Twice(name).first.rs
    /\ \A d1, d2 \in TreeItems(resolver) \cap resolver.isDynamicSubtest :
          (/\ resolver.items[d1].name = resolver.items[d2].name
           /\ MethodAbove(resolver, d1) = MethodAbove(resolver, d2)) => d1 = d2

\* a nested dynamic subtest has just been resolved a second time in a row
\* and the call returned the node of the first time
C6_Witness ==
    /\ lastCall.op = "resolve"
    /\ lastCall.repeat = "same"
    /\ lastCall.item \in resolver.isDynamicSubtest
    /\ resolver.items[lastCall.item].parent \in resolver.isDynamicSubtest

MethodRuleAt(rs, ts, k, name) ==
    /\ ts[k] \in SuiteMethods(rs)
    /\ extractInstanceTestName(KeyOf(rs, ts[k])) # <<>>
    /\ \/ name = ReportedPath(rs, ts[k])
       \/ StartsWith(name, ReportedPath(rs, ts[k]) \o <<Slash>>)

SuiteRuleAt(rs, ts, k, name) ==
    /\ ts[k] \in rs.isTestSuiteFunc
    /\ \E m \in SuiteMethods(rs) :
          /\ rs.items[m].parent = ts[k]
          /\ \/ name = ReportedPath(rs, m)
             \/ StartsWith(name, ReportedPath(rs, m) \o <<Slash>>)

SuiteRuleMatches(rs, ts, name) ==
    name # <<>> /\ \E k \in 1..Len(ts) :
        MethodRuleAt(rs, ts, k, name) \/ SuiteRuleAt(rs, ts, k, name)

FlatKey(rs, ts, name) == \E k \in 1..Len(ts) : KeyOf(rs, ts[k]) = name

\* item is the method m (the name is its path) or the node of that name below it
AnswersFor(rs, m, name, item) ==
    /\ item \in DOMAIN rs.items
    /\ IF name = ReportedPath(rs, m) THEN item = m
       ELSE /\ item # m
            /\ MethodAbove(rs, item) = m
            /\ rs.items[item].name = name

\* C8: when a suite rule matches the reported name, resolveTestName returns
\* the method of the suite the matching key stands for, or the subtest of
\* that name below it, also when the name is a key of the test map; the flat
\* lookup of the name is the answer only when no suite rule matches.
C8_SuiteFirst ==
    (lastCall.op \in {"resolve", "consume"} /\ runPhase = "testing") =>
        IF SuiteRuleMatches(resolver, tests, lastCall.name)
        THEN \E k \in 1..Len(tests) :
                \/ /\ MethodRuleAt(resolver, tests, k, lastCall.name)
                   /\ AnswersFor(resolver, tests[k], lastCall.name, lastCall.item)
                \/ /\ SuiteRuleAt(resolver, tests, k, lastCall.name)
                   /\ \E m \in SuiteMethods(resolver) :
                         /\ resolver.items[m].parent = tests[k]
                         /\ AnswersFor(resolver, m, lastCall.name, lastCall.item)
        ELSE lastCall.item = superResolveTestName(resolver, tests, lastCall.name).item

\* a name that a suite rule matches and that is a key of the test map as
\* well has been resolved, and the flat lookup would have given another node
C8_Witness ==
    /\ lastCall.op = "resolve"
    /\ runPhase = "testing"
    /\ SuiteRuleMatches(resolver, tests, lastCall.name)
    /\ FlatKey(resolver, tests, lastCall.name)
    /\ superResolveTestName(resolver, tests, lastCall.name).item # lastCall.item

\* a name no rule of resolveTestName knows
UnknownName(rs, ts, name) ==
    ~SuiteRuleMatches(rs, ts, name) /\ ~FlatKey(rs, ts, name)

RECURSIVE SuitesReached(_, _)
SuitesReached(rs, item) ==
    IF item \in rs.isTestSuiteFunc THEN {item}
    ELSE UNION { SuitesReached(rs, c) :
                   c \in { rs.items[item].children[i] : i \in 1..Len(rs.items[item].children) }
                         \ rs.isDynamicSubtest }

\* C10: the pruning of run() removes, for every suite reached from an
\* included item, every dynamic subtest below the test methods of the suite,
\* and keeps the test methods of the suite and every node that is not a
\* dynamic subtest, with the children they had.
C10_PruneKeepsMethods ==
    [][ lastCall'.op = "run" =>
          /\ \A i \in 1..Len(lastCall'.include) :
               \A s \in SuitesReached(resolver, lastCall'.include[i]) :
                  /\ resolver'.items[s].children = resolver.items[s].children
                  /\ \A m \in SuiteMethods(resolver) :
                        resolver.items[m].parent = s =>
                           /\ Subtree(resolver', m) \cap resolver'.isDynamicSubtest = {}
                           /\ \A d \in Subtree(resolver, m) \cap resolver.isDynamicSubtest :
                                 /\ d \notin DOMAIN resolver'.items
                                 /\ d \notin resolver'.isDynamicSubtest
          /\ \A h \in (DOMAIN resolver.items) \ resolver.isDynamicSubtest :
               /\ h \in DOMAIN resolver'.items
               /\ resolver'.items[h].parent = resolver.items[h].parent
               /\ SelectSeq(resolver.items[h].children,
                            LAMBDA c : c \notin resolver.isDynamicSubtest)
                  = SelectSeq(resolver'.items[h].children,
                              LAMBDA c : c \notin resolver'.isDynamicSubtest)
          /\ resolver'.isTestSuiteFunc = resolver.isTestSuiteFunc ]_vars

\* a run of the file has just pruned a subtest and the subtest below it
C10_Witness ==
    /\ lastCall.op = "run"
    /\ lastCall.include = <<FileItem>>
    /\ Cardinality(lastCall.gone) >= 2
    /\ SuiteMethods(resolver) = {MethodTM, MethodTN, MethodUM}

\* the name up to the segment before its last one
PrefixBefore(name) ==
    SubSeq(name, 1, (CHOOSE i \in 1..Len(name) :
                        name[i] = Slash /\ \A j \in (i + 1)..Len(name) : name[j] # Slash) - 1)

\* the tests of the run let a suite rule take the path S/M: they hold a
\* method with that path, or the suite with such a method among its children
RulesKnow(rs, ts, path) ==
    \E k \in 1..Len(ts) :
        \/ IsMethodOfSuite(rs, ts[k]) /\ SuiteMethodPath(rs, ts[k]) = path
        \/ /\ ts[k] \in rs.isTestSuiteFunc
           /\ \E i \in 1..Len(rs.items[ts[k]].children) :
                 TestMethodName(rs, KeyOf(rs, ts[k]), rs.items[ts[k]].children[i]) = path

\* item is the node of the last get-or-create step for name below a method
\* with the path S/M: it goes by name (key and label), it is a dynamic
\* subtest, and its parent is the node of the step before, the method itself
\* for the first step
RECURSIVE IsStepNode(_, _, _, _)
IsStepNode(rs, item, name, path) ==
    /\ item \in DOMAIN rs.items
    /\ IF name = path
       THEN item \in SuiteMethods(rs) /\ ReportedPath(rs, item) = path
       ELSE /\ rs.items[item].name = name
            /\ rs.items[item].label = name
            /\ item \in rs.isDynamicSubtest
            /\ item \in { rs.items[rs.items[item].parent].children[i] :
                             i \in 1..Len(rs.items[rs.items[item].parent].children) }
            /\ IsStepNode(rs, rs.items[item].parent, PrefixBefore(name), path)

\* the reported names below a suite method, with the path of the method
SubtestNames ==
    { n \in ReportedNames : Len(n) > 3 /\ n[2] = Slash /\ n[4] = Slash }

\* C33: a call of resolveTestName for S/M/a1/.../ak, made with tests that let
\* a suite rule take S/M, returns a node that goes by the full name and
\* hangs below a method with the path S/M by a chain of k dynamic subtests,
\* the i-th of which goes by the name up to ai; and every node the call adds
\* to the tree is marked as a dynamic subtest.
C33_SubtestChain ==
    [][\A name \in SubtestNames :
          (/\ lastCall'.op = "resolve"
           /\ lastCall'.name = name
           /\ RulesKnow(resolver, tests, SubSeq(name, 1, 3)))
          => /\ IsStepNode(resolver', lastCall'.item, name, SubSeq(name, 1, 3))
             /\ (DOMAIN resolver'.items) \ (DOMAIN resolver.items)
                    \subseteq resolver'.isDynamicSubtest
      ]_vars

\* S/M/a/b has been resolved to a subtest two steps below the method
C33_Witness ==
    /\ lastCall.op = "resolve"
    /\ lastCall.name = <<"S", Slash, "M", Slash, "a", Slash, "b">>
    /\ lastCall.item \in resolver.isDynamicSubtest
    /\ resolver.items[lastCall.item].name = lastCall.name
    /\ resolver.items[resolver.items[lastCall.item].parent].name
           = <<"S", Slash, "M", Slash, "a">>
    /\ resolver.items[resolver.items[lastCall.item].parent].parent = MethodTM

\* node is item or one of the nodes above it
RECURSIVE IsOnPathTo(_, _, _)
IsOnPathTo(rs, node, item) ==
    \/ node = item
    \/ /\ rs.items[item].parent # 0
       /\ IsOnPathTo(rs, node, rs.items[item].parent)

IsFilterArg(arg) == arg[1] = FilterFlag

\* the regular expression between the quotes of the filter argument
FilterValue(arg) == SubSeq(arg, 2, Len(arg) - 1)

\* C21: the filter value is anchored as a whole with ^ and $, and every
\* separator of a subtest path stands between the $ that closes one segment
\* and the ^ that opens the next one, at every nesting depth
C21_EverySegmentAnchored ==
    baArgs # <<>> =>
        \A k \in 1..Len(baArgs) :
            IsFilterArg(baArgs[k]) =>
                LET v == FilterValue(baArgs[k])
                IN  /\ v[1] = "^"
                    /\ v[Len(v)] = "$"
                    /\ \A i \in 2..(Len(v) - 1) :
                           v[i] = Slash => v[i - 1] = "$" /\ v[i + 1] = "^"

\* the place of an argument in the order the claim gives
RankOf(arg, input) ==
    CASE arg \in {<<"debug">>, <<"coverage">>, <<"run">>, <<"test">>} -> 1
      [] arg = ToolTag -> 3
      [] IsFilterArg(arg) -> 4
      [] \E i \in 1..Len(input.flags) : input.flags[i] = arg -> 5
      [] Len(arg) = 4 /\ arg[1] = "--test_env=" -> 6
      [] \E i \in 1..Len(input.bazelTargets) : input.bazelTargets[i] = arg -> 7
      [] arg = BenchMarker -> 8
      [] OTHER -> 2

\* the arguments of one rank, in the order they stand in the vector
OfRank(args, input, rank) == SelectSeq(args, LAMBDA arg : RankOf(arg, input) = rank)

\* the verb by priority: debug, then coverage, then run, then test
VerbByPriority(input) ==
    IF input.debugConfig.defined THEN "debug"
    ELSE IF input.applyCodeCoverage THEN "coverage"
    ELSE IF input.isBenchmark THEN "run"
    ELSE "test"

\* C22: the first argument is the verb chosen by priority; the arguments stand
\* in the order verb, mode flags, tool tag, filter, user flags, environment
\* flags, targets; the user flags and the targets are the ones given, in the
\* order given; a benchmark run ends with the marker '-- -test.bench=.'
C22_ArgsInOrder ==
    baArgs # <<>> =>
        /\ baArgs[1] = <<VerbByPriority(baInput)>>
        /\ \A i \in 1..(Len(baArgs) - 1) :
               RankOf(baArgs[i], baInput) <= RankOf(baArgs[i + 1], baInput)
        /\ Len(OfRank(baArgs, baInput, 1)) = 1
        /\ OfRank(baArgs, baInput, 3) = <<ToolTag>>
        /\ Len(OfRank(baArgs, baInput, 4)) <= 1
        /\ OfRank(baArgs, baInput, 5) = baInput.flags
        /\ Len(OfRank(baArgs, baInput, 6)) = Len(baInput.goConfig)
        /\ OfRank(baArgs, baInput, 7) = baInput.bazelTargets
        /\ baInput.isBenchmark => baArgs[Len(baArgs)] = BenchMarker
        /\ ~baInput.isBenchmark => OfRank(baArgs, baInput, 8) = <<>>

\* a benchmark run with coverage, a filter, user flags and an environment flag
C22_Witness ==
    /\ baArgs # <<>>
    /\ baInput.isBenchmark
    /\ baInput.applyCodeCoverage
    /\ ~baInput.debugConfig.defined
    /\ baInput.flags # <<>>
    /\ baInput.goConfig # <<>>
    /\ \E k \in 1..Len(baArgs) : IsFilterArg(baArgs[k])

(***************************************************************************)
(* Properties of the coverage handler.                                     *)
(***************************************************************************)

IsSingleLineAt(option, line) ==
    /\ option.range.startLine = line
    /\ option.range.endLine = line

\* the details with a positive / a zero hit count, in input order
DetailsWhere(details, positive) ==
    SelectSeq(details, LAMBDA d : (d.hit > 0) = positive)

\* C25: every detail line is in exactly one of covered (count above 0) and
\* uncovered (count 0): the two lists together are as long as the details,
\* and each list holds, in input order, one single-line range at the
\* zero-based line of each of its details
C25_EveryLineOnce ==
    lrCoverage.returned =>
        LET covered == DetailsWhere(lrLines.details, TRUE)
            uncovered == DetailsWhere(lrLines.details, FALSE)
            coverage == lrCoverage.value
        IN  /\ Len(coverage.coveredOptions) + Len(coverage.uncoveredOptions)
                  = Len(lrLines.details)
            /\ Len(coverage.coveredOptions) = Len(covered)
            /\ Len(coverage.uncoveredOptions) = Len(uncovered)
            /\ \A i \in 1..Len(covered) :
                   IsSingleLineAt(coverage.coveredOptions[i], covered[i].line - 1)
            /\ \A i \in 1..Len(uncovered) :
                   IsSingleLineAt(coverage.uncoveredOptions[i], uncovered[i].line - 1)

\* covered and uncovered lines interleaved, one line executed exactly once
C25_Witness ==
    /\ lrCoverage.returned
    /\ Len(lrCoverage.value.coveredOptions) >= 2
    /\ Len(lrCoverage.value.uncoveredOptions) >= 1
    /\ \E i \in 1..Len(lrLines.details) : lrLines.details[i].hit = 1
    /\ lrLines.details[1].hit = 0

RECURSIVE SumOf(_, _)
SumOf(children, field) ==
    IF children = <<>> THEN 0
    ELSE Head(children)[field] + SumOf(Tail(children), field)

\* C23: the total lines and the total hits of every package node of the tree
\* are the sums of the lines and of the hits of its file children
C23_TotalsAreSums ==
    \A i \in 1..Len(coverageTreeRoots) :
        /\ coverageTreeRoots[i].lines = SumOf(coverageTreeRoots[i].children, "lines")
        /\ coverageTreeRoots[i].hits = SumOf(coverageTreeRoots[i].children, "hits")

\* a package node with two files and totals above zero
C23_Witness ==
    \E i \in 1..Len(coverageTreeRoots) :
        /\ Len(coverageTreeRoots[i].children) = 2
        /\ coverageTreeRoots[i].hits > 0
        /\ coverageTreeRoots[i].lines > coverageTreeRoots[i].hits

\* the package of each file of the report: the directory of its path below
\* the Go workspace root, written out file by file
PackageOfFile(file, mapper) ==
    CASE file = FooP -> <<"p">>
      [] file = BarP -> <<"p">>
      [] file = FooSub -> <<"p", "sub">>
      [] file = FooTop -> <<".">>
      [] file = FooPq -> <<"pq">>
      [] file = GenP -> IF mapper = "none" THEN <<"..", "gen", "src", "p">> ELSE <<"p">>

\* the absolute path of each file of the report
AbsoluteOfFile(file, mapper) ==
    IF file = GenP /\ mapper # "none" THEN <<"repo", "src", "p", "gen.go">>
    ELSE <<"repo">> \o file

\* the mapper that takes the generated-file root off a path: the configured
\* one when the prefix of the run is that root
MapperOf(input) ==
    IF input.generatedFilePrefix = GeneratedFilePrefix THEN input.generatedFileMapper
    ELSE "none"

\* the records of a run whose package is an entry of its in-scope list
RecordsInScope(input) ==
    { i \in 1..Len(input.parsed.data) :
        \E k \in 1..Len(input.targetPackages) :
            input.targetPackages[k]
                = PackageOfFile(input.parsed.data[i].file, MapperOf(input)) }

\* the step in which the report of run r has been processed to its end
Processes(r) == cvRuns[r].phase = "running" /\ cvRuns'[r].phase = "processed"

\* the step in which the processing of the report of run r has failed
FailsToProcess(r) == cvRuns[r].phase = "running" /\ cvRuns'[r].phase = "failed"

\* the package nodes a step has added to the tree
AddedRoots ==
    SubSeq(coverageTreeRoots', Len(coverageTreeRoots) + 1, Len(coverageTreeRoots'))

ChildPaths(roots) ==
    UNION { { roots[i].children[j].absolutePath : j \in 1..Len(roots[i].children) } :
              i \in 1..Len(roots) }

\* C24: a record of the report gets an entry in the coverage data and a child
\* in the tree exactly when its package is equal to an entry of the in-scope
\* list; every package node added is an in-scope package that has a record
C24_OnlyExactPackages ==
    [][ \A r \in RunIds : Processes(r) =>
          LET input == cvRuns[r].input
              inScope == RecordsInScope(input)
              paths == { AbsoluteOfFile(input.parsed.data[i].file, MapperOf(input)) :
                           i \in inScope }
          IN  /\ DOMAIN coverageData' = DOMAIN coverageData \cup paths
              /\ ChildPaths(AddedRoots) = paths
              /\ \A i \in 1..Len(AddedRoots) :
                     /\ \E k \in 1..Len(input.targetPackages) :
                            input.targetPackages[k] = AddedRoots[i].displayName
                     /\ \E j \in inScope :
                            PackageOfFile(input.parsed.data[j].file, MapperOf(input))
                                = AddedRoots[i].displayName ]_vars

\* a report with a file of package p and a file of a sub-package, a parent or
\* a sibling with the same prefix has been processed with only p in scope
C24_Witness ==
    /\ cvRuns["a"].phase = "processed"
    /\ cvRuns["a"].input.targetPackages = <<PkgP>>
    /\ Len(cvRuns["a"].input.parsed.data) = 2
    /\ cvRuns["a"].input.parsed.data[1].file \in {FooSub, FooTop, FooPq}
    /\ cvRuns["a"].input.parsed.data[2].file = FooP
    /\ Len(coverageTreeRoots) >= 1

\* the package nodes derived from the report of a run
RootsOf(input) ==
    LET inScope == RecordsInScope(input)
    IN  { PackageOfFile(input.parsed.data[i].file, MapperOf(input)) : i \in inScope }

\* C26: once the coverage of a run has been processed, the tree holds exactly
\* the package nodes derived from the report of that run: none of an earlier
\* run, none of a run executing at the same time, no package twice
C26_TreeOfThisRunOnly ==
    [][ \A r \in RunIds : Processes(r) =>
          /\ { coverageTreeRoots'[i].displayName : i \in 1..Len(coverageTreeRoots') }
                 = RootsOf(cvRuns[r].input)
          /\ \A i, j \in 1..Len(coverageTreeRoots') :
                 coverageTreeRoots'[i].displayName = coverageTreeRoots'[j].displayName
                     => i = j ]_vars

\* C27: when the report is missing or cannot be parsed, or its processing
\* throws, one error message is shown, the tree and the coverage data are
\* left as they were, and the call completes
C27_FailureShowsOneMessage ==
    [][ \A r \in RunIds : FailsToProcess(r) =>
          /\ Len(cvMessages') = Len(cvMessages) + 1
          /\ coverageTreeRoots' = coverageTreeRoots
          /\ coverageData' = coverageData ]_vars

\* the report of one run failed to parse while the tree held the nodes of
\* the other run
C27_Witness ==
    /\ cvRuns["a"].phase = "failed"
    /\ cvRuns["a"].input.parsed.err
    /\ cvRuns["b"].phase = "processed"
    /\ Len(coverageTreeRoots) = 1
    /\ Len(cvMessages) = 1

\* C38: a record whose path is not under the generated-file root is never
\* handed to the mapper and gets the workspace root joined with its path,
\* also in a run whose prefix is the empty string; so the processing of a
\* report fails on the mapper only when a record is under that root
C38_SourceFilesNotRemapped ==
    \A r \in RunIds :
        (cvRuns[r].phase \in {"processed", "failed"} /\ ~cvRuns[r].input.parsed.err) =>
            LET input == cvRuns[r].input
                data == input.parsed.data
            IN  /\ \A i \in 1..Len(data) :
                       ~IsPrefixOf(GeneratedFilePrefix, data[i].file) =>
                           /\ ~UsesMapper(input, data[i].file)
                           /\ getSourceFileAbsolutePath(input, data[i].file)
                                  = pathJoin(BazelWorkspaceRoot, data[i].file)
                /\ cvRuns[r].phase = "failed" =>
                       \E i \in 1..Len(data) : IsPrefixOf(GeneratedFilePrefix, data[i].file)

\* the positions of the file nodes of a tree: root i, child j
FileNodes(roots) ==
    UNION { { <<i, j>> : j \in 1..Len(roots[i].children) } : i \in 1..Len(roots) }

\* C39: after one report has been processed into an empty handler, no two
\* file nodes of the tree have the same absolute path, and the paths of the
\* file nodes are the keys of the coverage data, also when the report lists
\* a file twice
C39_OneNodePerFile ==
    [][ \A r \in RunIds :
          (Processes(r) /\ coverageTreeRoots = <<>> /\ coverageData = NoCoverageData) =>
            /\ \A n, k \in FileNodes(coverageTreeRoots') :
                   coverageTreeRoots'[n[1]].children[n[2]].absolutePath
                       = coverageTreeRoots'[k[1]].children[k[2]].absolutePath
                     => n = k
            /\ { coverageTreeRoots'[n[1]].children[n[2]].absolutePath :
                     n \in FileNodes(coverageTreeRoots') }
                 = DOMAIN coverageData' ]_vars

(***************************************************************************)
(* Properties of processTestResultXML.                                     *)
(***************************************************************************)

\* a document all of whose failure and error entries have text
Convertible(file) ==
    /\ file.kind = "document"
    /\ \A s \in 1..Len(file.doc) : \A c \in 1..Len(file.doc[s].testcase) :
          /\ \A e \in 1..Len(file.doc[s].testcase[c].failure) :
                file.doc[s].testcase[c].failure[e].defined
          /\ file.doc[s].testcase[c].failure = <<>> =>
                \A e \in 1..Len(file.doc[s].testcase[c].error) :
                    file.doc[s].testcase[c].error[e].defined

\* the events forwarded for file i, in the order they were forwarded
ForwardedOf(i) ==
    LET mine == SelectSeq(pxForwarded, LAMBDA f : f.file = i)
    IN  [k \in 1..Len(mine) |-> mine[k].event]

\* the lines of the channel about file i
LinesAbout(i) == SelectSeq(Tail(pxChannel), LAMBDA l : l.about = i)

\* C28: the events reach the consumer file by file in the order of the list
\* and, for one file, in the order of the converter; a file that is missing,
\* unreadable or cannot be parsed or converted gives no event and one error
\* line, and the files after it are processed all the same
C28_BatchInOrder ==
    pxIndex > 0 =>
        /\ \A k \in 1..(Len(pxForwarded) - 1) :
               pxForwarded[k].file <= pxForwarded[k + 1].file
        /\ \A i \in 1..(pxIndex - 1) :
               IF Convertible(pxFiles[i])
               THEN /\ ForwardedOf(i) = testResultXMLToGoTestOutput(pxFiles[i].doc).value
                    /\ LinesAbout(i) = <<CompletedLine(i)>>
               ELSE /\ ForwardedOf(i) = <<>>
                    /\ LinesAbout(i) = <<UnableLine(i)>>
        /\ \A i \in pxIndex..Len(pxFiles) : ForwardedOf(i) = <<>> /\ LinesAbout(i) = <<>>

\* a missing file and a failure without text, each followed by a report that
\* was forwarded
C28_Witness ==
    /\ pxIndex = Len(pxFiles) + 1
    /\ Len(pxFiles) = 3
    /\ pxFiles[1] = MissingFile
    /\ ~Convertible(pxFiles[2]) /\ pxFiles[2].kind = "document"
    /\ Len(ForwardedOf(3)) = 3

\* the converter has been called and has returned or thrown
XmlCalled == xmlResult.state \in {"returned", "threw"}

\* the events other than output events, in the order of the result
Terminals == SelectSeq(Results, LAMBDA e : ~IsOutput(e))

\* the action the claim gives for a case
ActionByPriority(c) ==
    IF Len(c.failure) > 0 THEN "fail"
    ELSE IF Len(c.error) > 0 THEN "errored"
    ELSE IF c.skipped THEN "skip"
    ELSE "pass"

\* C29: after the call, each test case of the document has exactly one
\* terminal event, with the action fail, errored, skip or pass by priority
\* and the package, name and elapsed time of the case; suites without test
\* cases have none: there are as many terminal events as test cases
C29_OneTerminalPerCase ==
    XmlCalled =>
        /\ Len(Terminals) = Len(AllCases)
        /\ \A k \in 1..Len(AllCases) :
               k <= Len(Terminals) =>
                   Terminals[k] = [ Action |-> ActionByPriority(AllCases[k].case),
                                    Package |-> AllCases[k].pkg,
                                    Test |-> AllCases[k].case.name,
                                    Elapsed |-> Number(AllCases[k].case.time) ]

(***************************************************************************)
(* Properties of the re-resolution of file items.                          *)
(***************************************************************************)
\* the test items of a document: what its symbols stand for
IsTestOf(t, doc) == t.uri = doc /\ GoTestParseId(t.id).kind # "file"

\* the items that stand for the symbol of a document
ItemsFor(items, doc, symbol) ==
    {t \in items : IsTestOf(t, doc) /\ GoTestParseId(t.id).name = symbol}

\* a step that is a call of resolve on the file item of the document
IsResolveOf(doc) == rxLast'.file = doc /\ rxWorkspace' = rxWorkspace

\* C30: a call of resolve on a file item keeps every item whose symbol the
\* document still declares, and every item of another document, as it is
\* (same id, same parent); the id of an item whose symbol is gone is no
\* longer in the tree; every symbol of the document has exactly one item,
\* whose id is made of the document, the kind and the name; nothing else is
\* added; and no two items of the tree have the same id.
C30_StableIds ==
    [][\A doc \in Documents : IsResolveOf(doc) =>
          /\ \A t \in rxItems :
                (IsTestOf(t, doc) => GoTestParseId(t.id).name \in rxWorkspace[doc])
                    => t \in rxItems'
          /\ \A t \in rxItems :
                (IsTestOf(t, doc) /\ GoTestParseId(t.id).name \notin rxWorkspace[doc])
                    => t.id \notin IdsOf(rxItems')
          /\ \A symbol \in rxWorkspace[doc] :
                /\ Cardinality(ItemsFor(rxItems', doc, symbol)) = 1
                /\ \A t \in ItemsFor(rxItems', doc, symbol) :
                      t.id = <<doc, "?", KindOf(symbol), "#">> \o symbol
          /\ \A t \in rxItems' \ rxItems :
                IsTestOf(t, doc) /\ GoTestParseId(t.id).name \in rxWorkspace[doc]
          /\ \A t, u \in rxItems' : t.id = u.id => t = u
      ]_vars

\* another_test.go was resolved after TestSample4 was replaced by
\* TestSample6: the first is gone, the second is there, TestSample5 and the
\* suite function were there before and are there now
C30_Witness ==
    /\ rxLast.file = AnotherTest
    /\ GoTestId(AnotherTest, "test", TestSample("4")) \in rxLast.before \ IdsOf(rxItems)
    /\ GoTestId(AnotherTest, "test", TestSample("6")) \in IdsOf(rxItems) \ rxLast.before
    /\ GoTestId(AnotherTest, "test", TestSample("5")) \in IdsOf(rxItems) \cap rxLast.before
    /\ SuiteFuncId \in IdsOf(rxItems) \cap rxLast.before

(***************************************************************************)
(* Properties of overlapping calls of run and runWithCoverage.             *)
(***************************************************************************)
\* C34: every invocation of the build tool that a call of runWithCoverage
\* triggers applies code coverage, and when the call returns the flag has
\* the value it had before the call, whatever other calls and commands
\* happen in between.
C34_CoverageForTheWholeRun ==
    \A c \in CallIds :
        rcCalls[c].withCoverage =>
            /\ \A i \in 1..Len(rcCalls[c].applied) : rcCalls[c].applied[i]
            /\ rcCalls[c].phase = "done"
                  => rcCalls[c].atReturn = rcCalls[c].preservedCoverageState

\* C35: while a call of run is in progress none of its included items is in
\* isTestMethod, and when no call is in progress isTestMethod has the
\* members it had at the start.
C35_MethodsOutForTheRun ==
    /\ \A c \in CallIds :
          rcCalls[c].phase = "running" => rcCalls[c].include \cap rcIsTestMethod = {}
    /\ (\A c \in CallIds : rcCalls[c].phase # "running")
          => rcIsTestMethod = ScannedTree.isTestMethod

(***************************************************************************)
(* Properties of the messages of a failed test.                            *)
(***************************************************************************)
\* C36: every message handed to run.failed has no location, or a location in
\* a file that exists (its own, or the last valid location seen before it);
\* none has a location in a file that does not exist, with and without
\* concatenation.
C36_OnlyExistingFiles ==
    fmFailed.called =>
        \A k \in 1..Len(fmFailed.messages) :
            fmFailed.messages[k].location.defined
                => existsSync(fmFailed.messages[k].location.uri)

(***************************************************************************)
(* Properties of getTreeItem.                                              *)
(***************************************************************************)
\* C37: for a node without lines no division by zero produces the displayed
\* percentage, which is shown as not a number; for a node with lines the
\* percentage is hits / lines, as a whole number of percent.
C37_PercentToleratesNoLines ==
    tiItem.called =>
        IF tiElement.lines = 0
        THEN /\ tiItem.item.division.divisor # 0
             /\ tiItem.item.percent.kind # "number"
        ELSE /\ tiItem.item.percent.kind = "number"
             /\ 2 * tiItem.item.percent.percent * tiElement.lines
                    \in (200 * tiElement.hits - tiElement.lines)..
                        (200 * tiElement.hits + tiElement.lines)

(***************************************************************************)
(* Specifications.                                                         *)
(***************************************************************************)

InitCollector == EcInit /\ XmlIdle /\ BeIdle /\ TrIdle /\ GoIdle /\ BaIdle /\ LrIdle /\ CvIdle /\ PxIdle /\ RxIdle /\ RcIdle /\ FmIdle /\ TiIdle
SpecCollector == InitCollector /\ [][EcNext]_vars

InitXml == XmlInit /\ EcIdle /\ BeIdle /\ TrIdle /\ GoIdle /\ BaIdle /\ LrIdle /\ CvIdle /\ PxIdle /\ RxIdle /\ RcIdle /\ FmIdle /\ TiIdle
SpecXml == InitXml /\ [][XmlNext]_vars

InitBuildEvents == BeInit /\ EcIdle /\ XmlIdle /\ TrIdle /\ GoIdle /\ BaIdle /\ LrIdle /\ CvIdle /\ PxIdle /\ RxIdle /\ RcIdle /\ FmIdle /\ TiIdle
SpecBuildEvents == InitBuildEvents /\ [][BeNext]_vars

\* a file stream delivers its chunks and then ends or fails, and the
\* interface splits a chunk to its end: reading does not stall
SpecBuildEventsLive == InitBuildEvents /\ [][BeNext]_vars /\ WF_vars(BeNext)

InitRunner == TrInit /\ EcIdle /\ XmlIdle /\ BeIdle /\ GoIdle /\ BaIdle /\ LrIdle /\ CvIdle /\ PxIdle /\ RxIdle /\ RcIdle /\ FmIdle /\ TiIdle
SpecRunner == InitRunner /\ [][TrNext]_vars

InitOrchestrator == GoInit /\ EcIdle /\ XmlIdle /\ BeIdle /\ TrIdle /\ BaIdle /\ LrIdle /\ CvIdle /\ PxIdle /\ RxIdle /\ RcIdle /\ FmIdle /\ TiIdle
SpecOrchestrator == InitOrchestrator /\ [][GoNext]_vars

\* an invocation that awaits its targets goes on to spawn; a registered
\* cancellation callback runs; a process whose tree was killed closes
KilledProcessCloses == \E r \in RunIds : goRuns[r].killed /\ ProcessClose(r)

SpecOrchestratorLive ==
    /\ InitOrchestrator
    /\ [][GoNext]_vars
    /\ WF_vars(\E r \in RunIds : Spawn(r))
    /\ WF_vars(\E r \in RunIds : KillOnCancel(r))
    /\ WF_vars(KilledProcessCloses)

InitArgs == BaInit /\ EcIdle /\ XmlIdle /\ BeIdle /\ TrIdle /\ GoIdle /\ LrIdle /\ CvIdle /\ PxIdle /\ RxIdle /\ RcIdle /\ FmIdle /\ TiIdle
SpecArgs == InitArgs /\ [][BaNext]_vars

InitRanges == LrInit /\ EcIdle /\ XmlIdle /\ BeIdle /\ TrIdle /\ GoIdle /\ BaIdle /\ CvIdle /\ PxIdle /\ RxIdle /\ RcIdle /\ FmIdle /\ TiIdle
SpecRanges == InitRanges /\ [][LrNext]_vars

InitCoverage ==
    CvInit /\ EcIdle /\ XmlIdle /\ BeIdle /\ TrIdle /\ GoIdle /\ BaIdle /\ LrIdle /\ PxIdle /\ RxIdle /\ RcIdle /\ FmIdle /\ TiIdle
SpecCoverage == InitCoverage /\ [][CvNext]_vars

InitReports ==
    PxInit /\ EcIdle /\ XmlIdle /\ BeIdle /\ TrIdle /\ GoIdle /\ BaIdle /\ LrIdle /\ CvIdle /\ RxIdle /\ RcIdle /\ FmIdle /\ TiIdle
SpecReports == InitReports /\ [][PxNext]_vars

InitResolve ==
    RxInit /\ EcIdle /\ XmlIdle /\ BeIdle /\ TrIdle /\ GoIdle /\ BaIdle /\ LrIdle /\ CvIdle /\ PxIdle /\ RcIdle /\ FmIdle /\ TiIdle
SpecResolve == InitResolve /\ [][RxNext]_vars

InitCalls ==
    RcInit /\ EcIdle /\ XmlIdle /\ BeIdle /\ TrIdle /\ GoIdle /\ BaIdle /\ LrIdle /\ CvIdle /\ PxIdle /\ RxIdle /\ FmIdle /\ TiIdle
SpecCalls == InitCalls /\ [][RcNext]_vars

InitFailed ==
    FmInit /\ EcIdle /\ XmlIdle /\ BeIdle /\ TrIdle /\ GoIdle /\ BaIdle /\ LrIdle /\ CvIdle /\ PxIdle /\ RxIdle /\ RcIdle /\ TiIdle
SpecFailed == InitFailed /\ [][FmNext]_vars

InitTreeItem ==
    TiInit /\ EcIdle /\ XmlIdle /\ BeIdle /\ TrIdle /\ GoIdle /\ BaIdle /\ LrIdle /\ CvIdle /\ PxIdle /\ RxIdle /\ RcIdle /\ FmIdle
SpecTreeItem == InitTreeItem /\ [][TiNext]_vars

====
